---------------------------- MODULE LedgerProofs ----------------------------
(***************************************************************************)
(* Theorems about Ledger, for every value of its constants.                *)
(***************************************************************************)
EXTENDS Ledger, SequenceTheorems, FiniteSetTheorems, TLAPS

-----------------------------------------------------------------------------
\* What the helpers return.

LEMMA RoundType ==
  ASSUME NEW x \in Nat
  PROVE  RoundToColumn(x) \in Nat
  BY DEF RoundToColumn

\* Rounding an amount that was read back from a column changes nothing.
LEMMA RoundTwice ==
  ASSUME NEW x \in Nat
  PROVE  RoundToColumn(RoundToColumn(x)) = RoundToColumn(x)
  BY DEF RoundToColumn

LEMMA StoredType ==
  ASSUME NEW e \in Entries
  PROVE  Stored(e) \in Entries
  BY RoundType DEF Stored, Entries, Columns

LEMMA StoredTwice ==
  ASSUME NEW e \in Entries
  PROVE  Stored(Stored(e)) = Stored(e)
  BY RoundTwice, RoundType DEF Stored, Entries, Columns

LEMMA MirrorType ==
  ASSUME NEW e \in Entries
  PROVE  Mirror(e) \in Entries
  BY DEF Mirror, Entries

LEMMA AbsentRowType ==
  ASSUME NEW version \in Nat
  PROVE  AbsentRow(version) \in MoveRows
  BY TableAssumption DEF AbsentRow, MoveRows, NoEntry, Entries, Columns, NoName, Names

LEMMA DraftRowType ==
  ASSUME NEW j \in Journals, NEW p \in Periods, NEW e \in Entries,
         NEW version \in Nat, NEW creator \in Actors \cup {NoActor}
  PROVE  DraftRow(j, p, e, version, creator) \in MoveRows
<1> DEFINE r == AbsentRow(version)
<1>1. r \in MoveRows
  BY AbsentRowType
<1> HIDE DEF r
<1>2. [r EXCEPT !.state = "draft", !.journal = j, !.period = p, !.lines = e,
                !.createdBy = creator] \in MoveRows
  BY <1>1 DEF MoveRows
<1> QED BY <1>2 DEF DraftRow, r

LEMMA RewrittenRowType ==
  ASSUME NEW row \in MoveRows, NEW lines \in Entries
  PROVE  [row EXCEPT !.lines = lines, !.version = @ + 1] \in MoveRows
<1> DEFINE version == row.version + 1
<1>1. version \in Nat
  BY DEF MoveRows
<1> HIDE DEF version
<1>2. [row EXCEPT !.lines = lines, !.version = version] \in MoveRows
  BY <1>1 DEF MoveRows
<1> QED BY <1>2 DEF version

LEMMA QueueParts ==
  ASSUME NEW q \in Queues
  PROVE  /\ Head(q) \in MoveIds
         /\ Tail(q) # <<>> => Tail(q) \in Queues
<1>1. q \in Seq(MoveIds) /\ q # <<>>
  BY DEF Queues
<1>2. Head(q) \in MoveIds /\ Tail(q) \in Seq(MoveIds)
  BY <1>1, HeadTailProperties
<1> QED BY <1>2 DEF Queues

LEMMA PostedRowType ==
  ASSUME NEW row \in MoveRows, NEW name \in Names, NEW actor \in Actors \cup {NoActor},
         NEW previous \in MoveIds \cup {NoMove}
  PROVE  [row EXCEPT !.state = "posted", !.name = name,
                     !.previous = previous, !.postedBy = actor] \in MoveRows
  BY DEF MoveRows

-----------------------------------------------------------------------------
\* The shape of a request is told by its op.
LEMMA StateShapes ==
  ASSUME NEW state \in WorkerStates
  PROVE  /\ state.op = "save" => state \in SaveWorkers
         /\ state.op = "bulk" => state \in BulkWorkers
         /\ state.op \in {"read", "post"} => state \in PostWorkers
         /\ state.op = "reverse" => state \in ReverseWorkers
         /\ state.op = "ingest" => state \in IngestWorkers
         /\ state.op = "lookup" => state \in LookupWorkers
<1>1. \A x \in SaveWorkers : x.op = "save"
  BY DEF SaveWorkers
<1>2. \A x \in BulkWorkers : x.op = "bulk"
  BY DEF BulkWorkers
<1>3. \A x \in PostWorkers : x.op \in {"read", "post"}
  BY DEF PostWorkers
<1>4. \A x \in ReverseWorkers : x.op = "reverse"
  BY DEF ReverseWorkers
<1>5. \A x \in IngestWorkers : x.op = "ingest"
  BY DEF IngestWorkers
<1>6. \A x \in LookupWorkers : x.op = "lookup"
  BY DEF LookupWorkers
<1>7. Idle.op = "idle"
  BY DEF Idle
<1> QED BY <1>1, <1>2, <1>3, <1>4, <1>5, <1>6, <1>7 DEF WorkerStates

LEMMA WorkerShapes ==
  ASSUME TypeOK, NEW w \in Workers
  PROVE  /\ Doing(w, "save") => workers[w] \in SaveWorkers
         /\ Doing(w, "bulk") => workers[w] \in BulkWorkers
         /\ (Doing(w, "read") \/ Doing(w, "post")) => workers[w] \in PostWorkers
         /\ Doing(w, "reverse") => workers[w] \in ReverseWorkers
         /\ Doing(w, "ingest") => workers[w] \in IngestWorkers
         /\ Doing(w, "lookup") => workers[w] \in LookupWorkers
<1>1. workers[w] \in WorkerStates
  BY DEF TypeOK
<1> QED BY <1>1, StateShapes DEF Doing

\* Every transaction that posts keeps the tables well formed.
LEMMA PublishType ==
  ASSUME TypeOK,
         NEW m \in MoveIds, NEW row \in MoveRows, NEW actor \in Actors \cup {NoActor},
         NEW entity \in MoveIds, NEW action \in {"POST", "REVERSE", "INGEST_POST"},
         Publish(m, row, actor, entity, action)
  PROVE  /\ moves' \in [MoveIds -> MoveRows]
         /\ journals' \in [Journals -> [prefix : Nat, next : Nat, active : BOOLEAN]]
         /\ audit' \in Seq(AuditRows)
<1>1. row.journal \in Journals
  BY DEF MoveRows
<1>2. NextName(row.journal) \in Names
  BY <1>1 DEF NextName, Names, TypeOK
<1>3. LastPosted(row.journal) \subseteq MoveIds \cup {NoMove}
  BY DEF LastPosted, PostedIn, Posted
<1>4. PICK previous \in LastPosted(row.journal) :
        moves' = [moves EXCEPT ![m] =
          [row EXCEPT !.state = "posted", !.name = NextName(row.journal),
                      !.previous = previous, !.postedBy = actor]]
  BY DEF Publish
<1>5. [row EXCEPT !.state = "posted", !.name = NextName(row.journal),
                  !.previous = previous, !.postedBy = actor] \in MoveRows
  BY <1>2, <1>3, PostedRowType
<1>6. moves' \in [MoveIds -> MoveRows]
  BY <1>4, <1>5 DEF TypeOK
<1>7. journals' \in [Journals -> [prefix : Nat, next : Nat, active : BOOLEAN]]
  <2>1. journals' = [journals EXCEPT ![row.journal].next = @ + 1]
    BY DEF Publish
  <2>2. journals \in [Journals -> [prefix : Nat, next : Nat, active : BOOLEAN]]
    BY DEF TypeOK
  <2> QED BY <1>1, <2>1, <2>2
<1>8. [entity |-> entity, action |-> action, actor |-> actor] \in AuditRows
  BY DEF AuditRows
<1>9. audit' \in Seq(AuditRows)
  BY <1>8, AppendProperties DEF Publish, TypeOK
<1> QED BY <1>6, <1>7, <1>9

-----------------------------------------------------------------------------
\* Type correctness.

LEMMA GoesType ==
  ASSUME TypeOK, NEW w, NEW state \in WorkerStates, Goes(w, state)
  PROVE  workers' \in [Workers -> WorkerStates]
  BY DEF Goes, TypeOK

LEMMA ReplyType ==
  ASSUME TypeOK, NEW k \in Keys, NEW m \in MoveIds, Reply(k, m)
  PROVE  replies' \in [Keys -> SUBSET MoveIds]
  BY DEF Reply, TypeOK

LEMMA IdleType == Idle \in WorkerStates
  BY DEF WorkerStates

LEMMA InitType == Init => TypeOK
<1> SUFFICES ASSUME Init PROVE TypeOK
  OBVIOUS
<1>1. moves \in [MoveIds -> MoveRows]
  BY AbsentRowType DEF Init
<1>2. workers \in [Workers -> WorkerStates]
  BY IdleType DEF Init
<1>3. audit \in Seq(AuditRows)
  BY DEF Init
<1> QED BY <1>1, <1>2, <1>3 DEF Init, TypeOK, PeriodStates

LEMMA DraftsType ==
  ASSUME TypeOK, NEW w \in Workers, NEW j \in Journals, NEW p \in Periods, NEW e \in Drafts
  PROVE  /\ \A a \in Actors \cup {NoActor} : CreateDraft(w, j, p, e, a) => TypeOK'
         /\ \A m \in MoveIds : UpdateDraft(w, m, j, p, e) => TypeOK'
         /\ \A k \in Keys : BeginIngest(w, k, j, p, e) => TypeOK'
<1>1. e \in Entries
  BY DraftAssumption
<1>2. ASSUME NEW a \in Actors \cup {NoActor}, CreateDraft(w, j, p, e, a)
      PROVE  TypeOK'
  <2> DEFINE state == [op |-> "save", id |-> NoMove, row |-> DraftRow(j, p, e, 0, a)]
  <2>1. DraftRow(j, p, e, 0, a) \in MoveRows
    BY <1>1, DraftRowType
  <2>2. state \in WorkerStates
    BY <2>1 DEF WorkerStates, SaveWorkers
  <2>3. workers' \in [Workers -> WorkerStates]
    <3> HIDE DEF state
    <3>1. Goes(w, state)
      BY <1>2 DEF CreateDraft, state
    <3> QED BY <2>2, <3>1, GoesType
  <2> QED BY <1>2, <2>3 DEF CreateDraft, TypeOK
<1>3. ASSUME NEW m \in MoveIds, UpdateDraft(w, m, j, p, e)
      PROVE  TypeOK'
  <2> DEFINE row == [moves[m] EXCEPT !.journal = j, !.period = p, !.lines = e]
             state == [op |-> "save", id |-> m, row |-> row]
  <2>1. row \in MoveRows
    <3>1. moves[m] \in MoveRows
      BY DEF TypeOK
    <3> QED BY <1>1, <3>1 DEF MoveRows
  <2>2. state \in WorkerStates
    <3> HIDE DEF row
    <3> QED BY <2>1 DEF WorkerStates, SaveWorkers
  <2>3. workers' \in [Workers -> WorkerStates]
    <3>1. Goes(w, state)
      BY <1>3 DEF UpdateDraft
    <3> HIDE DEF state
    <3> QED BY <2>2, <3>1, GoesType
  <2> QED BY <1>3, <2>3 DEF UpdateDraft, TypeOK
<1>4. ASSUME NEW k \in Keys, BeginIngest(w, k, j, p, e)
      PROVE  TypeOK'
  <2> DEFINE row == DraftRow(j, p, Stored(e), 0, NoActor)
             state == [op |-> "ingest", key |-> k, row |-> row]
  <2>1. row \in MoveRows
    BY <1>1, StoredType, DraftRowType
  <2>2. state \in WorkerStates
    <3> HIDE DEF row
    <3> QED BY <2>1 DEF WorkerStates, IngestWorkers
  <2>3. workers' \in [Workers -> WorkerStates]
    <3>1. Goes(w, state)
      BY <1>4 DEF BeginIngest
    <3> HIDE DEF state
    <3> QED BY <2>2, <3>1, GoesType
  <2> QED BY <1>4, <2>3 DEF BeginIngest, TypeOK
<1> QED BY <1>2, <1>3, <1>4

LEMMA SaveDraftType ==
  ASSUME TypeOK, NEW w \in Workers, SaveDraft(w)
  PROVE  TypeOK'
<1> DEFINE row == workers[w].row
           id == workers[w].id
<1>1. row \in MoveRows /\ id \in MoveIds \cup {NoMove}
  BY WorkerShapes DEF SaveDraft, SaveWorkers
<1>2. PICK m \in (IF id = NoMove THEN Unused ELSE {id}) :
        moves' = [moves EXCEPT ![m] =
          DraftRow(row.journal, row.period, Stored(row.lines), @.version + 1,
                   IF @.createdBy # NoActor THEN @.createdBy ELSE row.createdBy)]
  BY DEF SaveDraft
<1>3. m \in MoveIds
  BY <1>1, <1>2 DEF Unused
<1>4. /\ row.journal \in Journals /\ row.period \in Periods /\ row.lines \in Entries
      /\ row.createdBy \in Actors \cup {NoActor}
      /\ moves[m].version \in Nat /\ moves[m].createdBy \in Actors \cup {NoActor}
  BY <1>1, <1>3 DEF MoveRows, TypeOK
<1> HIDE DEF row, id
<1>5. DraftRow(row.journal, row.period, Stored(row.lines), moves[m].version + 1,
               IF moves[m].createdBy # NoActor THEN moves[m].createdBy ELSE row.createdBy)
        \in MoveRows
  BY <1>4, StoredType, DraftRowType
<1>6. moves' \in [MoveIds -> MoveRows]
  BY <1>2, <1>3, <1>5 DEF TypeOK
<1>7. workers' \in [Workers -> WorkerStates]
  BY IdleType, GoesType DEF SaveDraft
<1> QED BY <1>6, <1>7 DEF SaveDraft, TypeOK

LEMMA DeleteDraftType ==
  ASSUME TypeOK, NEW m \in MoveIds, DeleteDraft(m)
  PROVE  TypeOK'
<1>1. AbsentRow(moves[m].version) \in MoveRows
  BY AbsentRowType DEF TypeOK, MoveRows
<1>2. moves' \in [MoveIds -> MoveRows]
  BY <1>1 DEF DeleteDraft, TypeOK
<1> QED BY <1>2 DEF DeleteDraft, TypeOK

LEMMA PostingType ==
  ASSUME TypeOK, NEW w \in Workers
  PROVE  /\ \A q \in Requested, a \in Actors : BeginPosting(w, q, a) => TypeOK'
         /\ ReadHeader(w) => TypeOK'
         /\ ReadLines(w) => TypeOK'
         /\ PostMove(w) => TypeOK'
<1>1. ASSUME NEW q \in Requested, NEW a \in Actors, BeginPosting(w, q, a)
      PROVE  TypeOK'
  <2> DEFINE state == [op |-> "bulk", queue |-> q, done |-> {}, actor |-> a]
  <2>1. q \in Queues
    BY DEF Requested, Queues
  <2>2. state \in WorkerStates
    BY <2>1 DEF WorkerStates, BulkWorkers
  <2>3. workers' \in [Workers -> WorkerStates]
    <3>1. Goes(w, state)
      BY <1>1 DEF BeginPosting
    <3> HIDE DEF state
    <3> QED BY <2>2, <3>1, GoesType
  <2> QED BY <1>1, <2>3 DEF BeginPosting, TypeOK
<1>2. ASSUME ReadHeader(w)
      PROVE  TypeOK'
  <2> DEFINE req == workers[w]
             row == [moves[Head(req.queue)] EXCEPT !.lines = NoEntry]
             state == [op |-> "read", queue |-> req.queue, done |-> req.done,
                       actor |-> req.actor, row |-> row]
  <2>1. req.queue \in Queues /\ req.done \in SUBSET MoveIds /\ req.actor \in Actors
    BY <1>2, WorkerShapes DEF ReadHeader, BulkWorkers
  <2>2. Head(req.queue) \in MoveIds
    BY <2>1, QueueParts
  <2>3. row \in MoveRows
    <3>1. moves[Head(req.queue)] \in MoveRows
      BY <2>2 DEF TypeOK
    <3>2. NoEntry \in Entries
      BY DEF NoEntry, Entries, Columns
    <3> QED BY <3>1, <3>2 DEF MoveRows
  <2>4. state \in WorkerStates
    <3> HIDE DEF row, req
    <3> QED BY <2>1, <2>3 DEF WorkerStates, PostWorkers
  <2>5. workers' \in [Workers -> WorkerStates]
    <3>1. Goes(w, state)
      BY <1>2 DEF ReadHeader
    <3> HIDE DEF state
    <3> QED BY <2>4, <3>1, GoesType
  <2> QED BY <1>2, <2>5 DEF ReadHeader, TypeOK
<1>3. ASSUME ReadLines(w)
      PROVE  TypeOK'
  <2> DEFINE req == workers[w]
             row == [req.row EXCEPT !.lines = moves[Head(req.queue)].lines]
             state == [req EXCEPT !.op = "post", !.row = row]
  <2>1. req \in PostWorkers
    BY <1>3, WorkerShapes DEF ReadLines
  <2>2. moves[Head(req.queue)].lines \in Entries /\ req.row \in MoveRows
    <3>1. Head(req.queue) \in MoveIds
      BY <2>1, QueueParts DEF PostWorkers
    <3>2. moves[Head(req.queue)] \in MoveRows
      BY <3>1 DEF TypeOK
    <3> QED BY <2>1, <3>2 DEF MoveRows, PostWorkers
  <2>3. row \in MoveRows
    BY <2>2 DEF MoveRows
  <2>4. state \in WorkerStates
    <3> HIDE DEF row, req
    <3> QED BY <2>1, <2>3 DEF WorkerStates, PostWorkers
  <2>5. workers' \in [Workers -> WorkerStates]
    <3>1. Goes(w, state)
      BY <1>3 DEF ReadLines
    <3> HIDE DEF state
    <3> QED BY <2>4, <3>1, GoesType
  <2> QED BY <1>3, <2>5 DEF ReadLines, TypeOK
<1>4. ASSUME PostMove(w)
      PROVE  TypeOK'
  <2> DEFINE req == workers[w]
             m == Head(req.queue)
             row == [moves[m] EXCEPT !.lines = Stored(req.row.lines), !.version = @ + 1]
             state == IF Tail(req.queue) = <<>> THEN Idle
                      ELSE [op |-> "bulk", queue |-> Tail(req.queue),
                            done |-> req.done \cup {m}, actor |-> req.actor]
  <2>1. /\ req.queue \in Queues /\ req.done \in SUBSET MoveIds /\ req.actor \in Actors
        /\ req.row \in MoveRows
    BY <1>4, WorkerShapes DEF PostMove, PostWorkers
  <2>2. m \in MoveIds
    BY <2>1, QueueParts
  <2>3. row \in MoveRows
    <3>1. moves[m] \in MoveRows
      BY <2>2 DEF TypeOK
    <3>2. Stored(req.row.lines) \in Entries
      BY <2>1, StoredType DEF MoveRows
    <3> QED BY <3>1, <3>2, RewrittenRowType
  <2>4. Publish(m, row, req.actor, m, "POST") /\ Goes(w, state)
    BY <1>4 DEF PostMove
  <2>5. state \in WorkerStates
    <3>1. Tail(req.queue) # <<>> => Tail(req.queue) \in Queues
      BY <2>1, QueueParts
    <3> HIDE DEF req, m
    <3> QED BY <2>1, <2>2, <3>1, IdleType DEF WorkerStates, BulkWorkers
  <2> HIDE DEF req, m, row, state
  <2>6. workers' \in [Workers -> WorkerStates]
    BY <2>4, <2>5, GoesType
  <2>7. /\ moves' \in [MoveIds -> MoveRows]
        /\ journals' \in [Journals -> [prefix : Nat, next : Nat, active : BOOLEAN]]
        /\ audit' \in Seq(AuditRows)
    BY <2>1, <2>2, <2>3, <2>4, PublishType
  <2> QED BY <1>4, <2>6, <2>7 DEF PostMove, TypeOK
<1> QED BY <1>1, <1>2, <1>3, <1>4

LEMMA ReversalType ==
  ASSUME TypeOK, NEW w \in Workers
  PROVE  /\ \A m \in MoveIds, p \in Periods, a \in Actors : BeginReverse(w, m, p, a) => TypeOK'
         /\ ReverseMove(w) => TypeOK'
<1>1. ASSUME NEW m \in MoveIds, NEW p \in Periods, NEW a \in Actors, BeginReverse(w, m, p, a)
      PROVE  TypeOK'
  <2> DEFINE state == [op |-> "reverse", original |-> m, journal |-> moves[m].journal,
                       period |-> p, actor |-> a]
  <2>1. moves[m].journal \in Journals
    BY DEF TypeOK, MoveRows
  <2>2. state \in WorkerStates
    BY <2>1 DEF WorkerStates, ReverseWorkers
  <2>3. workers' \in [Workers -> WorkerStates]
    <3>1. Goes(w, state)
      BY <1>1 DEF BeginReverse
    <3> HIDE DEF state
    <3> QED BY <2>2, <3>1, GoesType
  <2> QED BY <1>1, <2>3 DEF BeginReverse, TypeOK
<1>2. ASSUME ReverseMove(w)
      PROVE  TypeOK'
  <2> DEFINE req == workers[w]
             o == req.original
             row == [DraftRow(req.journal, req.period, Stored(Mirror(moves[o].lines)), 1, NoActor)
                       EXCEPT !.reverses = o]
  <2>1. o \in MoveIds /\ req.journal \in Journals /\ req.period \in Periods /\ req.actor \in Actors
    BY <1>2, WorkerShapes DEF ReverseMove, ReverseWorkers
  <2>2. row \in MoveRows
    <3>1. Stored(Mirror(moves[o].lines)) \in Entries
      BY <2>1, StoredType, MirrorType DEF TypeOK, MoveRows
    <3>2. DraftRow(req.journal, req.period, Stored(Mirror(moves[o].lines)), 1, NoActor) \in MoveRows
      BY <2>1, <3>1, DraftRowType
    <3> HIDE DEF o, req
    <3> QED BY <2>1, <3>2 DEF MoveRows
  <2>3. PICK m \in Unused : Publish(m, row, req.actor, o, "REVERSE")
    BY <1>2 DEF ReverseMove
  <2>4. m \in MoveIds
    BY DEF Unused
  <2> HIDE DEF row, o, req
  <2>5. /\ moves' \in [MoveIds -> MoveRows]
        /\ journals' \in [Journals -> [prefix : Nat, next : Nat, active : BOOLEAN]]
        /\ audit' \in Seq(AuditRows)
    BY <2>1, <2>2, <2>3, <2>4, PublishType
  <2>6. workers' \in [Workers -> WorkerStates]
    BY <1>2, IdleType, GoesType DEF ReverseMove
  <2> QED BY <1>2, <2>5, <2>6 DEF ReverseMove, TypeOK
<1> QED BY <1>1, <1>2

LEMMA EventsType ==
  ASSUME TypeOK, NEW w \in Workers
  PROVE  /\ IngestEvent(w) => TypeOK'
         /\ IngestFails(w) => TypeOK'
         /\ LookUp(w) => TypeOK'
<1>1. ASSUME Doing(w, "ingest")
      PROVE  /\ workers[w].key \in Keys /\ workers[w].row \in MoveRows
             /\ [op |-> "lookup", key |-> workers[w].key] \in WorkerStates
  <2>1. workers[w].key \in Keys /\ workers[w].row \in MoveRows
    BY <1>1, WorkerShapes DEF IngestWorkers
  <2> QED BY <2>1 DEF WorkerStates, LookupWorkers
<1>2. ASSUME IngestEvent(w)
      PROVE  TypeOK'
  <2> DEFINE k == workers[w].key
             row == [workers[w].row EXCEPT !.version = 1]
  <2>1. k \in Keys /\ row \in MoveRows /\ [op |-> "lookup", key |-> k] \in WorkerStates
    BY <1>1, <1>2 DEF IngestEvent, MoveRows
  <2>2. PICK m \in Unused :
          /\ Publish(m, row, NoActor, m, "INGEST_POST")
          /\ events' = [events EXCEPT ![k] = m]
          /\ \/ Reply(k, m) /\ Goes(w, Idle)
             \/ UNCHANGED replies /\ Goes(w, [op |-> "lookup", key |-> k])
    BY <1>2 DEF IngestEvent
  <2>3. m \in MoveIds
    BY DEF Unused
  <2> HIDE DEF row, k
  <2>4. /\ moves' \in [MoveIds -> MoveRows]
        /\ journals' \in [Journals -> [prefix : Nat, next : Nat, active : BOOLEAN]]
        /\ audit' \in Seq(AuditRows)
    BY <2>1, <2>2, <2>3, PublishType
  <2>5. workers' \in [Workers -> WorkerStates]
    BY <2>1, <2>2, IdleType, GoesType
  <2>6. events' \in [Keys -> MoveIds \cup {NoMove}]
    BY <2>1, <2>2, <2>3 DEF TypeOK
  <2>7. replies' \in [Keys -> SUBSET MoveIds]
    BY <2>1, <2>2, <2>3, ReplyType DEF TypeOK
  <2> QED BY <1>2, <2>4, <2>5, <2>6, <2>7 DEF IngestEvent, TypeOK
<1>3. ASSUME IngestFails(w)
      PROVE  TypeOK'
  <2>1. workers' \in [Workers -> WorkerStates]
    BY <1>1, <1>3, GoesType DEF IngestFails
  <2> QED BY <1>3, <2>1 DEF IngestFails, TypeOK
<1>4. ASSUME LookUp(w)
      PROVE  TypeOK'
  <2>1. workers[w].key \in Keys
    BY <1>4, WorkerShapes DEF LookUp, LookupWorkers
  <2>2. events[workers[w].key] # NoMove => events[workers[w].key] \in MoveIds
    BY <2>1 DEF TypeOK
  <2>3. replies' \in [Keys -> SUBSET MoveIds]
    BY <1>4, <2>1, <2>2, ReplyType DEF LookUp, TypeOK
  <2>4. workers' \in [Workers -> WorkerStates]
    BY <1>4, IdleType, GoesType DEF LookUp
  <2> QED BY <1>4, <2>3, <2>4 DEF LookUp, TypeOK
<1> QED BY <1>2, <1>3, <1>4

LEMMA AnswerType ==
  ASSUME TypeOK, NEW k \in Keys, AnswerKnown(k)
  PROVE  TypeOK'
<1>1. events[k] \in MoveIds
  BY DEF AnswerKnown, TypeOK
<1>2. replies' \in [Keys -> SUBSET MoveIds]
  BY <1>1, ReplyType DEF AnswerKnown
<1> QED BY <1>2 DEF AnswerKnown, TypeOK

LEMMA AdministrationType ==
  ASSUME TypeOK
  PROVE  /\ \A p \in Periods, s \in PeriodStates : ChangePeriodState(p, s) => TypeOK'
         /\ \A j \in Journals : \A x \in PrefixesOf[j] :
              /\ CreateJournal(j, x) => TypeOK'
              /\ \A b \in BOOLEAN : UpdateJournal(j, x, b) => TypeOK'
         /\ \A w \in Workers : Fail(w) => TypeOK'
<1>1. ASSUME NEW p \in Periods, NEW s \in PeriodStates, ChangePeriodState(p, s)
      PROVE  TypeOK'
  BY <1>1 DEF ChangePeriodState, TypeOK
<1>2. ASSUME NEW j \in Journals, NEW x \in PrefixesOf[j]
      PROVE  /\ CreateJournal(j, x) => TypeOK'
             /\ \A b \in BOOLEAN : UpdateJournal(j, x, b) => TypeOK'
  <2>1. x \in Nat
    BY PrefixAssumption
  <2>2. journals \in [Journals -> [prefix : Nat, next : Nat, active : BOOLEAN]]
    BY DEF TypeOK
  <2>3. ASSUME CreateJournal(j, x) PROVE TypeOK'
    <3>1. journals' \in [Journals -> [prefix : Nat, next : Nat, active : BOOLEAN]]
      BY <2>1, <2>2, <2>3 DEF CreateJournal
    <3> QED BY <2>3, <3>1 DEF CreateJournal, TypeOK
  <2>4. ASSUME NEW b \in BOOLEAN, UpdateJournal(j, x, b) PROVE TypeOK'
    <3>1. journals' \in [Journals -> [prefix : Nat, next : Nat, active : BOOLEAN]]
      BY <2>1, <2>2, <2>4 DEF UpdateJournal
    <3> QED BY <2>4, <3>1 DEF UpdateJournal, TypeOK
  <2> QED BY <2>3, <2>4
<1>3. ASSUME NEW w \in Workers, Fail(w)
      PROVE  TypeOK'
  BY <1>3, IdleType, GoesType DEF Fail, TypeOK
<1> QED BY <1>1, <1>2, <1>3

LEMMA StepType == TypeOK /\ [Next]_vars => TypeOK'
<1> SUFFICES ASSUME TypeOK, [Next]_vars PROVE TypeOK'
  OBVIOUS
<1>1. CASE UNCHANGED vars
  BY <1>1 DEF vars, TypeOK
<1>2. CASE Next
  <2>1. ASSUME NEW w \in Workers, NEW j \in Journals, NEW p \in Periods, NEW e \in Drafts,
               \/ \E a \in Actors \cup {NoActor} : CreateDraft(w, j, p, e, a)
               \/ \E m \in MoveIds : UpdateDraft(w, m, j, p, e)
               \/ \E k \in Keys : BeginIngest(w, k, j, p, e)
        PROVE  TypeOK'
    BY <2>1, DraftsType
  <2>2. ASSUME NEW w \in Workers,
               \/ \E q \in Requested, a \in Actors : BeginPosting(w, q, a)
               \/ ReadHeader(w) \/ ReadLines(w) \/ PostMove(w)
        PROVE  TypeOK'
    BY <2>2, PostingType
  <2>3. ASSUME NEW w \in Workers,
               \/ \E m \in MoveIds, p \in Periods, a \in Actors : BeginReverse(w, m, p, a)
               \/ ReverseMove(w)
        PROVE  TypeOK'
    BY <2>3, ReversalType
  <2>4. ASSUME NEW w \in Workers, IngestEvent(w) \/ IngestFails(w) \/ LookUp(w)
        PROVE  TypeOK'
    BY <2>4, EventsType
  <2>5. ASSUME NEW w \in Workers, SaveDraft(w) \/ Fail(w)
        PROVE  TypeOK'
    BY <2>5, SaveDraftType, AdministrationType
  <2>6. ASSUME NEW m \in MoveIds, DeleteDraft(m)
        PROVE  TypeOK'
    BY <2>6, DeleteDraftType
  <2>7. ASSUME NEW k \in Keys, AnswerKnown(k)
        PROVE  TypeOK'
    BY <2>7, AnswerType
  <2>8. ASSUME NEW p \in Periods, NEW s \in PeriodStates, ChangePeriodState(p, s)
        PROVE  TypeOK'
    BY <2>8, AdministrationType
  <2>9. ASSUME NEW j \in Journals, NEW x \in PrefixesOf[j],
               CreateJournal(j, x) \/ \E b \in BOOLEAN : UpdateJournal(j, x, b)
        PROVE  TypeOK'
    BY <2>9, AdministrationType
  <2> QED BY <1>2, <2>1, <2>2, <2>3, <2>4, <2>5, <2>6, <2>7, <2>8, <2>9 DEF Next
<1> QED BY <1>1, <1>2

\* The tables and the requests in memory always have the shape the code gives
\* them (account_moves, journals and the use cases of internal/features/accounting).
THEOREM TypeCorrect == Spec => []TypeOK
BY InitType, StepType, PTL DEF Spec

-----------------------------------------------------------------------------
\* Safety.  Most of it depends only on the tables account_moves and journals, which a
\* step changes in one of three ways: it leaves the moves alone, it rewrites one draft,
\* or it posts one move.  StepKinds says so once, and the proofs are by cases on the
\* three.
-----------------------------------------------------------------------------
\* The foreign keys of the journals.

JournalsExist ==
  /\ \A j \in Journals : journals[j].active => journals[j].next > 0
  /\ \A m \in MoveIds : moves[m].state # "absent" => journals[moves[m].journal].next > 0
  /\ \A w \in Workers :
       /\ workers[w].op \in {"save", "ingest"} => journals[workers[w].row.journal].next > 0
       /\ workers[w].op = "reverse" => journals[workers[w].journal].next > 0

\* No step removes a journal or takes a number back.
NumbersGrow == \A j \in Journals : journals'[j].next >= journals[j].next

\* One draft is rewritten, created or deleted.
Redraft ==
  /\ \E m \in MoveIds, r \in MoveRows :
       /\ moves[m].state # "posted" /\ r.state # "posted"
       /\ r.state # "absent" => journals[r.journal].next > 0
       /\ r.version >= moves[m].version /\ r.reverses = NoMove
       /\ r.state # "absent" => r.version > moves[m].version /\ Stored(r.lines) = r.lines
       /\ moves' = [moves EXCEPT ![m] = r]
  /\ UNCHANGED <<journals, periods, audit>>

\* One move is posted, in a journal that exists and a period that is open.
Posting ==
  \E m \in MoveIds, row \in MoveRows, actor \in Actors \cup {NoActor}, entity \in MoveIds,
     action \in {"POST", "REVERSE", "INGEST_POST"} :
    /\ moves[m].state # "posted" /\ journals[row.journal].next > 0
    /\ row.version > moves[m].version
    /\ periods[row.period] = "open" /\ UNCHANGED periods
    /\ Publish(m, row, actor, entity, action)

\* The moves stay as they are; a journal may be created or updated, a period may
\* change its state.
Bystander ==
  /\ UNCHANGED <<moves, audit>>
  /\ \A p \in Periods : periods[p] = "hard_closed" => periods'[p] = "hard_closed"
  /\ \A j \in Journals :
       \/ journals'[j].next = journals[j].next
       \/ journals[j].next = 0 /\ journals'[j].next = 1

LEMMA SaveDraftKind ==
  ASSUME TypeOK, JournalsExist, NEW w \in Workers, SaveDraft(w)
  PROVE  Redraft
<1> DEFINE row == workers[w].row
           id == workers[w].id
<1>1. row \in MoveRows /\ id \in MoveIds \cup {NoMove} /\ journals[row.journal].next > 0
  BY WorkerShapes DEF SaveDraft, SaveWorkers, JournalsExist, Doing
<1>2. PICK m \in (IF id = NoMove THEN Unused ELSE {id}) :
        /\ moves[m].state # "posted"
        /\ moves' = [moves EXCEPT ![m] =
             DraftRow(row.journal, row.period, Stored(row.lines), @.version + 1,
                      IF @.createdBy # NoActor THEN @.createdBy ELSE row.createdBy)]
  BY DEF SaveDraft
<1>3. m \in MoveIds
  BY <1>1, <1>2 DEF Unused
<1>4. /\ row.journal \in Journals /\ row.period \in Periods /\ row.lines \in Entries
      /\ row.createdBy \in Actors \cup {NoActor}
      /\ moves[m].version \in Nat /\ moves[m].createdBy \in Actors \cup {NoActor}
  BY <1>1, <1>3 DEF MoveRows, TypeOK
<1> HIDE DEF row, id
<1> DEFINE r == DraftRow(row.journal, row.period, Stored(row.lines), moves[m].version + 1,
                         IF moves[m].createdBy # NoActor THEN moves[m].createdBy
                         ELSE row.createdBy)
<1>5. r \in MoveRows
  BY <1>4, StoredType, DraftRowType
<1>6. /\ r.state = "draft" /\ r.journal = row.journal /\ r.version = moves[m].version + 1
      /\ r.reverses = NoMove /\ r.lines = Stored(row.lines)
  BY DEF DraftRow, AbsentRow
<1>7. moves' = [moves EXCEPT ![m] = r]
  BY <1>2, <1>3 DEF TypeOK
<1>8. UNCHANGED <<journals, periods, audit>>
  BY DEF SaveDraft
<1> HIDE DEF r
<1>9. r.version >= moves[m].version /\ r.version > moves[m].version
  BY <1>4, <1>6
<1>10. Stored(r.lines) = r.lines
  BY <1>4, <1>6, StoredTwice
<1> QED BY <1>1, <1>2, <1>3, <1>5, <1>6, <1>7, <1>8, <1>9, <1>10 DEF Redraft

LEMMA DeleteDraftKind ==
  ASSUME TypeOK, NEW m \in MoveIds, DeleteDraft(m)
  PROVE  Redraft
<1> DEFINE r == AbsentRow(moves[m].version)
<1>1. moves[m].version \in Nat
  BY DEF TypeOK, MoveRows
<1>2. r \in MoveRows
  BY <1>1, AbsentRowType
<1>3. r.state = "absent" /\ r.version = moves[m].version /\ r.reverses = NoMove
  BY DEF AbsentRow
<1>4. moves[m].state # "posted" /\ moves' = [moves EXCEPT ![m] = r]
      /\ UNCHANGED <<journals, periods, audit>>
  BY DEF DeleteDraft
<1> HIDE DEF r
<1>5. r.version >= moves[m].version
  BY <1>1, <1>3
<1> QED BY <1>2, <1>3, <1>4, <1>5 DEF Redraft

LEMMA PostMoveKind ==
  ASSUME TypeOK, JournalsExist, NEW w \in Workers, PostMove(w)
  PROVE  Posting
<1> DEFINE req == workers[w]
           m == Head(req.queue)
           row == [moves[m] EXCEPT !.lines = Stored(req.row.lines), !.version = @ + 1]
<1>1. /\ req.queue \in Queues /\ req.actor \in Actors /\ req.row \in MoveRows
  BY WorkerShapes DEF PostMove, PostWorkers
<1>2. m \in MoveIds
  BY <1>1, QueueParts
<1>3. moves[m] \in MoveRows /\ Stored(req.row.lines) \in Entries
  BY <1>1, <1>2, StoredType DEF TypeOK, MoveRows
<1>4. row \in MoveRows
  BY <1>3, RewrittenRowType
<1>5. row.journal = moves[m].journal /\ row.version = moves[m].version + 1
      /\ row.period = moves[m].period /\ moves[m].version \in Nat
  BY <1>3 DEF MoveRows
<1>6. /\ moves[m].state = "draft" /\ Publish(m, row, req.actor, m, "POST")
      /\ periods[moves[m].period] = "open" /\ UNCHANGED periods
  BY DEF PostMove, SameRow
<1> HIDE DEF row, m, req
<1>7. journals[row.journal].next > 0 /\ row.version > moves[m].version
  BY <1>2, <1>5, <1>6 DEF JournalsExist
<1> QED BY <1>1, <1>2, <1>4, <1>5, <1>6, <1>7 DEF Posting

LEMMA ReverseMoveKind ==
  ASSUME TypeOK, JournalsExist, NEW w \in Workers, ReverseMove(w)
  PROVE  Posting
<1> DEFINE req == workers[w]
           o == req.original
           row == [DraftRow(req.journal, req.period, Stored(Mirror(moves[o].lines)), 1, NoActor)
                     EXCEPT !.reverses = o]
<1>1. /\ o \in MoveIds /\ req.journal \in Journals /\ req.period \in Periods
      /\ req.actor \in Actors /\ journals[req.journal].next > 0
  BY WorkerShapes DEF ReverseMove, ReverseWorkers, JournalsExist, Doing
<1>2. row \in MoveRows
  <2>1. Stored(Mirror(moves[o].lines)) \in Entries
    BY <1>1, StoredType, MirrorType DEF TypeOK, MoveRows
  <2>2. DraftRow(req.journal, req.period, Stored(Mirror(moves[o].lines)), 1, NoActor) \in MoveRows
    BY <1>1, <2>1, DraftRowType
  <2> HIDE DEF o, req
  <2> QED BY <1>1, <2>2 DEF MoveRows
<1>3. row.journal = req.journal /\ row.period = req.period /\ row.version = 1
  BY DEF DraftRow, AbsentRow
<1>4. PICK m \in Unused :
        /\ Publish(m, row, req.actor, o, "REVERSE")
        /\ periods[req.period] = "open" /\ UNCHANGED periods
  BY DEF ReverseMove
<1>5. m \in MoveIds /\ moves[m].state = "absent" /\ moves[m].version = 0
  BY DEF Unused
<1> HIDE DEF row, o, req
<1>6. row.version > moves[m].version
  BY <1>3, <1>5
<1> QED BY <1>1, <1>2, <1>3, <1>4, <1>5, <1>6 DEF Posting

LEMMA IngestEventKind ==
  ASSUME TypeOK, JournalsExist, NEW w \in Workers, IngestEvent(w)
  PROVE  Posting
<1> DEFINE row == [workers[w].row EXCEPT !.version = 1]
<1>1. workers[w].row \in MoveRows /\ journals[workers[w].row.journal].next > 0
  BY WorkerShapes DEF IngestEvent, IngestWorkers, JournalsExist, Doing
<1>2. /\ row \in MoveRows /\ row.journal = workers[w].row.journal
      /\ row.period = workers[w].row.period /\ row.version = 1
  BY <1>1 DEF MoveRows
<1>3. PICK m \in Unused :
        /\ Publish(m, row, NoActor, m, "INGEST_POST")
        /\ periods[workers[w].row.period] = "open" /\ UNCHANGED periods
  BY DEF IngestEvent
<1>4. m \in MoveIds /\ moves[m].state = "absent" /\ moves[m].version = 0
  BY DEF Unused
<1> HIDE DEF row
<1>5. row.version > moves[m].version
  BY <1>2, <1>4
<1> QED BY <1>1, <1>2, <1>3, <1>4, <1>5 DEF Posting

LEMMA JournalKind ==
  ASSUME TypeOK, NEW j \in Journals, NEW x,
         CreateJournal(j, x) \/ \E b \in BOOLEAN : UpdateJournal(j, x, b)
  PROVE  Bystander
<1>1. journals \in [Journals -> [prefix : Nat, next : Nat, active : BOOLEAN]]
  BY DEF TypeOK
<1>2. CASE CreateJournal(j, x)
  <2>1. journals[j].next = 0 /\ UNCHANGED <<moves, periods, audit>>
        /\ journals' = [journals EXCEPT ![j] = [prefix |-> x, next |-> 1, active |-> TRUE]]
    BY <1>2 DEF CreateJournal
  <2>2. \A i \in Journals : i # j => journals'[i] = journals[i]
    BY <1>1, <2>1
  <2>3. journals'[j].next = 1
    BY <1>1, <2>1
  <2>4. UNCHANGED <<moves, periods, audit>> /\ journals[j].next = 0
    BY <2>1
  <2>5. \A i \in Journals :
          \/ journals'[i].next = journals[i].next
          \/ journals[i].next = 0 /\ journals'[i].next = 1
    BY <2>2, <2>3, <2>4
  <2> QED BY <2>4, <2>5 DEF Bystander
<1>3. ASSUME NEW b \in BOOLEAN, UpdateJournal(j, x, b)
      PROVE  Bystander
  <2>1. journals' = [journals EXCEPT ![j].prefix = x, ![j].active = b]
    BY <1>3 DEF UpdateJournal
  <2>2. \A i \in Journals : journals'[i].next = journals[i].next
    BY <1>1, <2>1
  <2>3. UNCHANGED <<moves, periods, audit>>
    BY <1>3 DEF UpdateJournal
  <2> QED BY <2>2, <2>3 DEF Bystander
<1> QED BY <1>2, <1>3

\* Every step is of one of the three kinds.
LEMMA StepKinds ==
  ASSUME TypeOK, JournalsExist, [Next]_vars
  PROVE  Bystander \/ Redraft \/ Posting
<1>1. CASE UNCHANGED vars
  BY <1>1 DEF vars, Bystander
<1>2. CASE Next
  <2>1. ASSUME NEW w \in Workers, NEW j \in Journals, NEW p \in Periods, NEW e \in Drafts,
               \/ \E a \in Actors \cup {NoActor} : CreateDraft(w, j, p, e, a)
               \/ \E m \in MoveIds : UpdateDraft(w, m, j, p, e)
               \/ \E k \in Keys : BeginIngest(w, k, j, p, e)
        PROVE  Bystander
    BY <2>1 DEF CreateDraft, UpdateDraft, BeginIngest, Bystander
  <2>2. ASSUME NEW w \in Workers,
               \/ \E q \in Requested, a \in Actors : BeginPosting(w, q, a)
               \/ ReadHeader(w) \/ ReadLines(w)
               \/ \E m \in MoveIds, p \in Periods, a \in Actors : BeginReverse(w, m, p, a)
               \/ IngestFails(w) \/ LookUp(w) \/ Fail(w)
        PROVE  Bystander
    BY <2>2 DEF BeginPosting, ReadHeader, ReadLines, BeginReverse, IngestFails, LookUp, Fail,
                Bystander
  <2>3. ASSUME NEW w \in Workers, PostMove(w) \/ ReverseMove(w) \/ IngestEvent(w)
        PROVE  Posting
    BY <2>3, PostMoveKind, ReverseMoveKind, IngestEventKind
  <2>4. ASSUME NEW w \in Workers, SaveDraft(w)
        PROVE  Redraft
    BY <2>4, SaveDraftKind
  <2>5. ASSUME NEW m \in MoveIds, DeleteDraft(m)
        PROVE  Redraft
    BY <2>5, DeleteDraftKind
  <2>6. ASSUME NEW k \in Keys, AnswerKnown(k)
        PROVE  Bystander
    BY <2>6 DEF AnswerKnown, Bystander
  <2>7. ASSUME NEW p \in Periods, NEW s \in PeriodStates, ChangePeriodState(p, s)
        PROVE  Bystander
    BY <2>7 DEF ChangePeriodState, PeriodStep, TypeOK, Bystander
  <2>8. ASSUME NEW j \in Journals, NEW x \in PrefixesOf[j],
               CreateJournal(j, x) \/ \E b \in BOOLEAN : UpdateJournal(j, x, b)
        PROVE  Bystander
    BY <2>8, JournalKind
  <2> QED BY <1>2, <2>1, <2>2, <2>3, <2>4, <2>5, <2>6, <2>7, <2>8 DEF Next
<1> QED BY <1>1, <1>2

\* What Publish leaves behind, field by field.
LEMMA Published ==
  ASSUME TypeOK, NEW m \in MoveIds, NEW row \in MoveRows, NEW actor, NEW entity, NEW action,
         Publish(m, row, actor, entity, action)
  PROVE  /\ moves'[m].state = "posted" /\ moves'[m].journal = row.journal
         /\ moves'[m].name = NextName(row.journal) /\ moves'[m].previous \in LastPosted(row.journal)
         /\ moves'[m].lines = row.lines /\ moves'[m].reverses = row.reverses
         /\ moves'[m].period = row.period /\ moves'[m].postedBy = actor
         /\ moves'[m].createdBy = row.createdBy
         /\ moves'[m].version = row.version
         /\ \A o \in MoveIds \ {m} : moves'[o] = moves[o]
         /\ journals'[row.journal].next = journals[row.journal].next + 1
         /\ \A j \in Journals :
              /\ j # row.journal => journals'[j] = journals[j]
              /\ journals'[j].prefix = journals[j].prefix
              /\ journals'[j].active = journals[j].active
<1>1. PICK previous \in LastPosted(row.journal) :
        moves' = [moves EXCEPT ![m] =
          [row EXCEPT !.state = "posted", !.name = NextName(row.journal),
                      !.previous = previous, !.postedBy = actor]]
  BY DEF Publish
<1>2. journals' = [journals EXCEPT ![row.journal].next = @ + 1]
  BY DEF Publish
<1>3. journals \in [Journals -> [prefix : Nat, next : Nat, active : BOOLEAN]]
  BY DEF TypeOK
<1>4. moves'[m] = [row EXCEPT !.state = "posted", !.name = NextName(row.journal),
                              !.previous = previous, !.postedBy = actor]
      /\ \A o \in MoveIds \ {m} : moves'[o] = moves[o]
  BY <1>1 DEF TypeOK
<1>5. row.journal \in Journals
  BY DEF MoveRows
<1>6. /\ journals'[row.journal].next = journals[row.journal].next + 1
      /\ \A j \in Journals :
           /\ j # row.journal => journals'[j] = journals[j]
           /\ journals'[j].prefix = journals[j].prefix
           /\ journals'[j].active = journals[j].active
  BY <1>2, <1>3, <1>5
<1>7. /\ moves'[m].state = "posted" /\ moves'[m].journal = row.journal
      /\ moves'[m].name = NextName(row.journal) /\ moves'[m].previous \in LastPosted(row.journal)
      /\ moves'[m].lines = row.lines /\ moves'[m].reverses = row.reverses
      /\ moves'[m].period = row.period /\ moves'[m].postedBy = actor
      /\ moves'[m].createdBy = row.createdBy
      /\ moves'[m].version = row.version
  BY <1>4 DEF MoveRows
<1> QED BY <1>4, <1>6, <1>7

LEMMA NumbersNeverShrink ==
  ASSUME TypeOK, Bystander \/ Redraft \/ Posting
  PROVE  NumbersGrow
<1>1. \A j \in Journals : journals[j].next \in Nat
  BY DEF TypeOK
<1>2. CASE Bystander
  BY <1>1, <1>2 DEF Bystander, NumbersGrow
<1>3. CASE Redraft
  BY <1>1, <1>3 DEF Redraft, NumbersGrow
<1>4. CASE Posting
  <2>1. PICK m \in MoveIds, row \in MoveRows, actor \in Actors \cup {NoActor}, entity \in MoveIds,
             action \in {"POST", "REVERSE", "INGEST_POST"} :
          Publish(m, row, actor, entity, action)
    BY <1>4 DEF Posting
  <2>2. /\ journals'[row.journal].next = journals[row.journal].next + 1
        /\ \A j \in Journals : j # row.journal => journals'[j] = journals[j]
    BY <2>1, Published
  <2>3. row.journal \in Journals
    BY DEF MoveRows
  <2> QED BY <1>1, <2>2, <2>3 DEF NumbersGrow
<1> QED BY <1>2, <1>3, <1>4

LEMMA MovesInJournals ==
  ASSUME TypeOK, JournalsExist, Bystander \/ Redraft \/ Posting, NumbersGrow, TypeOK'
  PROVE  \A m \in MoveIds : moves'[m].state # "absent" => journals'[moves'[m].journal].next > 0
<1> SUFFICES ASSUME NEW m \in MoveIds, moves'[m].state # "absent"
             PROVE  journals'[moves'[m].journal].next > 0
  OBVIOUS
<1>1. /\ moves[m].journal \in Journals /\ moves'[m].journal \in Journals
      /\ \A j \in Journals : journals[j].next \in Nat /\ journals'[j].next \in Nat
  BY DEF TypeOK, MoveRows
<1>2. CASE moves'[m] = moves[m]
  BY <1>1, <1>2 DEF JournalsExist, NumbersGrow
<1>3. CASE moves'[m] # moves[m] /\ Redraft
  <2>1. PICK x \in MoveIds, r \in MoveRows :
          /\ r.state # "absent" => journals[r.journal].next > 0
          /\ moves' = [moves EXCEPT ![x] = r]
    BY <1>3 DEF Redraft
  <2>2. moves'[m] = r
    BY <1>3, <2>1 DEF TypeOK
  <2> QED BY <1>1, <2>1, <2>2 DEF NumbersGrow
<1>4. CASE moves'[m] # moves[m] /\ Posting
  <2>1. PICK x \in MoveIds, row \in MoveRows, actor \in Actors \cup {NoActor}, entity \in MoveIds,
             action \in {"POST", "REVERSE", "INGEST_POST"} :
          journals[row.journal].next > 0 /\ Publish(x, row, actor, entity, action)
    BY <1>4 DEF Posting
  <2>2. moves'[m].journal = row.journal
    BY <1>4, <2>1, Published
  <2> QED BY <1>1, <2>1, <2>2 DEF NumbersGrow
<1> QED BY <1>2, <1>3, <1>4 DEF Bystander

\* The steps that write no row of the table journals.
LEMMA OtherStepsKeepJournals ==
  /\ \A w \in Workers :
       /\ \A j \in Journals, p \in Periods, e \in Drafts :
            /\ \A a \in Actors \cup {NoActor} : CreateDraft(w, j, p, e, a) => UNCHANGED journals
            /\ \A m \in MoveIds : UpdateDraft(w, m, j, p, e) => UNCHANGED journals
            /\ \A k \in Keys : BeginIngest(w, k, j, p, e) => UNCHANGED journals
       /\ \A q \in Requested, a \in Actors : BeginPosting(w, q, a) => UNCHANGED journals
       /\ \A m \in MoveIds, p \in Periods, a \in Actors :
            BeginReverse(w, m, p, a) => UNCHANGED journals
       /\ SaveDraft(w) => UNCHANGED journals
       /\ ReadHeader(w) => UNCHANGED journals
       /\ ReadLines(w) => UNCHANGED journals
       /\ IngestFails(w) => UNCHANGED journals
       /\ LookUp(w) => UNCHANGED journals
       /\ Fail(w) => UNCHANGED journals
  /\ \A m \in MoveIds : DeleteDraft(m) => UNCHANGED journals
  /\ \A k \in Keys : AnswerKnown(k) => UNCHANGED journals
  /\ \A p \in Periods, s \in PeriodStates : ChangePeriodState(p, s) => UNCHANGED journals
<1>1. ASSUME NEW w \in Workers, NEW j \in Journals, NEW p \in Periods, NEW e \in Drafts
      PROVE  /\ \A a \in Actors \cup {NoActor} : CreateDraft(w, j, p, e, a) => UNCHANGED journals
             /\ \A m \in MoveIds : UpdateDraft(w, m, j, p, e) => UNCHANGED journals
             /\ \A k \in Keys : BeginIngest(w, k, j, p, e) => UNCHANGED journals
  BY DEF CreateDraft, UpdateDraft, BeginIngest
<1>2. ASSUME NEW w \in Workers
      PROVE  /\ \A q \in Requested, a \in Actors : BeginPosting(w, q, a) => UNCHANGED journals
             /\ \A m \in MoveIds, p \in Periods, a \in Actors :
                  BeginReverse(w, m, p, a) => UNCHANGED journals
             /\ SaveDraft(w) => UNCHANGED journals
             /\ ReadHeader(w) => UNCHANGED journals
             /\ ReadLines(w) => UNCHANGED journals
  BY DEF BeginPosting, BeginReverse, SaveDraft, ReadHeader, ReadLines
<1>3. ASSUME NEW w \in Workers
      PROVE  /\ IngestFails(w) => UNCHANGED journals
             /\ LookUp(w) => UNCHANGED journals
             /\ Fail(w) => UNCHANGED journals
  BY DEF IngestFails, LookUp, Fail
<1>4. /\ \A m \in MoveIds : DeleteDraft(m) => UNCHANGED journals
      /\ \A k \in Keys : AnswerKnown(k) => UNCHANGED journals
      /\ \A p \in Periods, s \in PeriodStates : ChangePeriodState(p, s) => UNCHANGED journals
  BY DEF DeleteDraft, AnswerKnown, ChangePeriodState
<1> QED BY <1>1, <1>2, <1>3, <1>4

LEMMA ActiveJournals ==
  ASSUME TypeOK, JournalsExist, [Next]_vars
  PROVE  \A j \in Journals : journals'[j].active => journals'[j].next > 0
<1>1. journals \in [Journals -> [prefix : Nat, next : Nat, active : BOOLEAN]]
  BY DEF TypeOK
<1>2. CASE UNCHANGED journals
  BY <1>2 DEF JournalsExist
<1>3. CASE Posting
  <2>1. PICK m \in MoveIds, row \in MoveRows, actor \in Actors \cup {NoActor}, entity \in MoveIds,
             action \in {"POST", "REVERSE", "INGEST_POST"} :
          Publish(m, row, actor, entity, action)
    BY <1>3 DEF Posting
  <2>2. NumbersGrow
    BY <1>3, NumbersNeverShrink
  <2>3. \A j \in Journals : journals'[j].active = journals[j].active
    BY <2>1, Published
  <2>4. \A j \in Journals : journals'[j].next \in Nat
    BY StepType DEF TypeOK
  <2> QED BY <1>1, <2>2, <2>3, <2>4 DEF JournalsExist, NumbersGrow
<1>4. ASSUME NEW j \in Journals, NEW x \in PrefixesOf[j], CreateJournal(j, x)
      PROVE  \A i \in Journals : journals'[i].active => journals'[i].next > 0
  <2>1. journals' = [journals EXCEPT ![j] = [prefix |-> x, next |-> 1, active |-> TRUE]]
    BY <1>4 DEF CreateJournal
  <2>2. journals'[j].next = 1 /\ \A i \in Journals : i # j => journals'[i] = journals[i]
    BY <1>1, <2>1
  <2> QED BY <2>2 DEF JournalsExist
<1>5. ASSUME NEW j \in Journals, NEW x \in PrefixesOf[j], NEW b \in BOOLEAN, UpdateJournal(j, x, b)
      PROVE  \A i \in Journals : journals'[i].active => journals'[i].next > 0
  <2>1. journals[j].next > 0
        /\ journals' = [journals EXCEPT ![j].prefix = x, ![j].active = b]
    BY <1>5 DEF UpdateJournal
  <2>2. \A i \in Journals : i # j => journals'[i] = journals[i]
    BY <1>1, <2>1
  <2>3. journals'[j].next = journals[j].next
    BY <1>1, <2>1
  <2> QED BY <2>1, <2>2, <2>3 DEF JournalsExist
<1>6. ASSUME NEW w \in Workers, PostMove(w) \/ ReverseMove(w) \/ IngestEvent(w)
      PROVE  Posting
  BY <1>6, PostMoveKind, ReverseMoveKind, IngestEventKind
<1>7. CASE UNCHANGED vars
  BY <1>2, <1>7 DEF vars
<1>8. CASE Next
  BY <1>2, <1>3, <1>4, <1>5, <1>6, <1>8, OtherStepsKeepJournals DEF Next
<1> QED BY <1>7, <1>8

\* A request holds the journal it read, which existed then and exists since.
HoldsJournal(state) ==
  /\ state.op \in {"save", "ingest"} => journals[state.row.journal].next > 0
  /\ state.op = "reverse" => journals[state.journal].next > 0

LEMMA HeldJournals ==
  ASSUME TypeOK, JournalsExist, [Next]_vars, NEW w \in Workers
  PROVE  \/ workers'[w] = workers[w]
         \/ HoldsJournal(workers'[w])
<1> USE DEF HoldsJournal
<1>0. ASSUME NEW v \in Workers, NEW state, Goes(v, state), HoldsJournal(state)
      PROVE  workers'[w] = workers[w] \/ HoldsJournal(workers'[w])
  BY <1>0 DEF Goes, TypeOK
<1>1. ASSUME NEW v \in Workers, NEW j \in Journals, NEW p \in Periods, NEW e \in Drafts,
             NEW a \in Actors \cup {NoActor}, CreateDraft(v, j, p, e, a)
      PROVE  workers'[w] = workers[w] \/ HoldsJournal(workers'[w])
  <2> DEFINE state == [op |-> "save", id |-> NoMove, row |-> DraftRow(j, p, e, 0, a)]
  <2>1. HoldsJournal(state)
    BY <1>1 DEF CreateDraft, DraftRow, AbsentRow, JournalsExist
  <2>2. Goes(v, state)
    BY <1>1 DEF CreateDraft
  <2> HIDE DEF state
  <2> QED BY <1>0, <2>1, <2>2
<1>2. ASSUME NEW v \in Workers, NEW j \in Journals, NEW p \in Periods, NEW e \in Drafts,
             NEW m \in MoveIds, UpdateDraft(v, m, j, p, e)
      PROVE  workers'[w] = workers[w] \/ HoldsJournal(workers'[w])
  <2> DEFINE state == [op |-> "save", id |-> m,
                       row |-> [moves[m] EXCEPT !.journal = j, !.period = p, !.lines = e]]
  <2>1. HoldsJournal(state)
    BY <1>2 DEF UpdateDraft, JournalsExist, TypeOK, MoveRows
  <2>2. Goes(v, state)
    BY <1>2 DEF UpdateDraft
  <2> HIDE DEF state
  <2> QED BY <1>0, <2>1, <2>2
<1>3. ASSUME NEW v \in Workers, NEW j \in Journals, NEW p \in Periods, NEW e \in Drafts,
             NEW k \in Keys, BeginIngest(v, k, j, p, e)
      PROVE  workers'[w] = workers[w] \/ HoldsJournal(workers'[w])
  <2> DEFINE state == [op |-> "ingest", key |-> k, row |-> DraftRow(j, p, Stored(e), 0, NoActor)]
  <2>1. HoldsJournal(state)
    BY <1>3 DEF BeginIngest, DraftRow, AbsentRow, JournalsExist
  <2>2. Goes(v, state)
    BY <1>3 DEF BeginIngest
  <2> HIDE DEF state
  <2> QED BY <1>0, <2>1, <2>2
<1>4. ASSUME NEW v \in Workers, NEW m \in MoveIds, NEW p \in Periods, NEW a \in Actors,
             BeginReverse(v, m, p, a)
      PROVE  workers'[w] = workers[w] \/ HoldsJournal(workers'[w])
  <2> DEFINE state == [op |-> "reverse", original |-> m, journal |-> moves[m].journal,
                       period |-> p, actor |-> a]
  <2>1. HoldsJournal(state)
    BY <1>4 DEF BeginReverse, JournalsExist
  <2>2. Goes(v, state)
    BY <1>4 DEF BeginReverse
  <2> HIDE DEF state
  <2> QED BY <1>0, <2>1, <2>2
<1>5. ASSUME NEW v \in Workers, NEW state, Goes(v, state),
             state.op \in {"idle", "bulk", "read", "post", "lookup"}
      PROVE  workers'[w] = workers[w] \/ HoldsJournal(workers'[w])
  BY <1>0, <1>5
<1>6. Idle.op = "idle"
  BY DEF Idle
<1>7. ASSUME NEW v \in Workers, NEW q, NEW a, BeginPosting(v, q, a)
      PROVE  workers'[w] = workers[w] \/ HoldsJournal(workers'[w])
  BY <1>5, <1>7 DEF BeginPosting
<1>8. ASSUME NEW v \in Workers, ReadHeader(v)
      PROVE  workers'[w] = workers[w] \/ HoldsJournal(workers'[w])
  BY <1>5, <1>8 DEF ReadHeader
<1>9. ASSUME NEW v \in Workers, ReadLines(v)
      PROVE  workers'[w] = workers[w] \/ HoldsJournal(workers'[w])
  <2> DEFINE row == [workers[v].row EXCEPT !.lines = moves[Head(workers[v].queue)].lines]
             state == [workers[v] EXCEPT !.op = "post", !.row = row]
  <2>1. Goes(v, state)
    BY <1>9 DEF ReadLines
  <2>2. workers[v] \in PostWorkers
    BY <1>9, WorkerShapes DEF ReadLines
  <2>3. state.op = "post"
    <3> HIDE DEF row
    <3> QED BY <2>2 DEF PostWorkers
  <2> HIDE DEF state
  <2> QED BY <1>5, <2>1, <2>3
<1>10. ASSUME NEW v \in Workers, PostMove(v)
       PROVE  workers'[w] = workers[w] \/ HoldsJournal(workers'[w])
  BY <1>5, <1>6, <1>10 DEF PostMove
<1>11. ASSUME NEW v \in Workers,
              SaveDraft(v) \/ ReverseMove(v) \/ LookUp(v) \/ Fail(v)
       PROVE  workers'[w] = workers[w] \/ HoldsJournal(workers'[w])
  BY <1>5, <1>6, <1>11 DEF SaveDraft, ReverseMove, LookUp, Fail
<1>12. ASSUME NEW v \in Workers, IngestEvent(v) \/ IngestFails(v)
       PROVE  workers'[w] = workers[w] \/ HoldsJournal(workers'[w])
  BY <1>5, <1>6, <1>12 DEF IngestEvent, IngestFails
<1>13. CASE UNCHANGED workers
  BY <1>13
<1> QED
  BY <1>1, <1>2, <1>3, <1>4, <1>7, <1>8, <1>9, <1>10, <1>11, <1>12, <1>13
     DEF Next, vars, DeleteDraft, AnswerKnown, ChangePeriodState, CreateJournal, UpdateJournal

LEMMA JournalsExistStep == TypeOK /\ JournalsExist /\ [Next]_vars => JournalsExist'
<1> SUFFICES ASSUME TypeOK, JournalsExist, [Next]_vars
             PROVE  JournalsExist'
  OBVIOUS
<1>1. TypeOK' /\ (Bystander \/ Redraft \/ Posting)
  BY StepType, StepKinds
<1>2. NumbersGrow
  BY <1>1, NumbersNeverShrink
<1>3. \A m \in MoveIds : moves'[m].state # "absent" => journals'[moves'[m].journal].next > 0
  BY <1>1, <1>2, MovesInJournals
<1>4. ASSUME NEW w \in Workers
      PROVE  /\ workers'[w].op \in {"save", "ingest"} => journals'[workers'[w].row.journal].next > 0
             /\ workers'[w].op = "reverse" => journals'[workers'[w].journal].next > 0
  <2>1. HoldsJournal(workers'[w])
    BY HeldJournals DEF JournalsExist, HoldsJournal
  <2>2. /\ workers'[w].op \in {"save", "ingest"} => workers'[w].row.journal \in Journals
        /\ workers'[w].op = "reverse" => workers'[w].journal \in Journals
    <3>1. /\ workers'[w].op = "save" => workers'[w] \in SaveWorkers
          /\ workers'[w].op = "ingest" => workers'[w] \in IngestWorkers
          /\ workers'[w].op = "reverse" => workers'[w] \in ReverseWorkers
      BY <1>1, StateShapes DEF TypeOK
    <3> QED BY <3>1 DEF SaveWorkers, IngestWorkers, ReverseWorkers, MoveRows
  <2>3. \A j \in Journals : journals[j].next \in Nat /\ journals'[j].next \in Nat
    BY <1>1 DEF TypeOK
  <2> QED BY <1>2, <2>1, <2>2, <2>3 DEF HoldsJournal, NumbersGrow
<1> QED BY <1>3, <1>4, ActiveJournals DEF JournalsExist

LEMMA JournalsExistInit == Init => JournalsExist
BY DEF Init, JournalsExist, AbsentRow, Idle

-----------------------------------------------------------------------------
\* What is posted stays posted.

LEMMA PostedKept ==
  ASSUME TypeOK, JournalsExist, [Next]_vars
  PROVE  \A m \in Posted : moves'[m] = moves[m]
<1> SUFFICES ASSUME NEW m \in Posted PROVE moves'[m] = moves[m]
  OBVIOUS
<1>1. m \in MoveIds /\ moves[m].state = "posted"
  BY DEF Posted
<1>2. CASE Bystander
  BY <1>2 DEF Bystander
<1>3. CASE Redraft
  BY <1>1, <1>3 DEF Redraft, TypeOK
<1>4. CASE Posting
  BY <1>1, <1>4, Published DEF Posting
<1> QED BY <1>2, <1>3, <1>4, StepKinds

LEMMA BaseInvariant == Spec => [](TypeOK /\ JournalsExist)
<1>1. Init => TypeOK /\ JournalsExist
  BY InitType, JournalsExistInit
<1>2. TypeOK /\ JournalsExist /\ [Next]_vars => (TypeOK /\ JournalsExist)'
  BY StepType, JournalsExistStep
<1> QED BY <1>1, <1>2, PTL DEF Spec

\* A posted move is never changed, unposted or deleted, whatever requests hold an
\* older copy of it (SaveDraftMove, DeleteDraftMove, PostMoveAtomic).
THEOREM PostedNeverChanges == Spec => PostedImmutable
<1>1. TypeOK /\ JournalsExist /\ [Next]_vars => [\A m \in Posted : moves'[m] = moves[m]]_vars
  BY PostedKept
<1> QED BY <1>1, BaseInvariant, PTL DEF Spec, PostedImmutable

LEMMA PostedInAfter ==
  ASSUME TypeOK, NEW m \in MoveIds, NEW row \in MoveRows, NEW actor, NEW entity, NEW action,
         moves[m].state # "posted", Publish(m, row, actor, entity, action)
  PROVE  /\ m \notin Posted /\ Posted' = Posted \cup {m}
         /\ PostedIn(row.journal)' = PostedIn(row.journal) \cup {m}
         /\ \A j \in Journals \ {row.journal} : PostedIn(j)' = PostedIn(j)
         /\ \A o \in Posted : moves'[o] = moves[o]
<1>1. /\ moves'[m].state = "posted" /\ moves'[m].journal = row.journal
      /\ \A o \in MoveIds \ {m} : moves'[o] = moves[o]
  BY Published
<1>2. m \notin Posted /\ Posted' = Posted \cup {m}
  BY <1>1 DEF Posted
<1>3. \A o \in Posted : moves'[o] = moves[o]
  BY <1>1, <1>2 DEF Posted
<1>4. PostedIn(row.journal)' = PostedIn(row.journal) \cup {m}
  BY <1>1, <1>2, <1>3 DEF PostedIn
<1>5. \A j \in Journals \ {row.journal} : PostedIn(j)' = PostedIn(j)
  BY <1>1, <1>2, <1>3 DEF PostedIn
<1> QED BY <1>2, <1>3, <1>4, <1>5

\* A step that posts nothing changes neither the set of the posted moves nor them.
LEMMA PostedSame ==
  ASSUME TypeOK, Bystander \/ Redraft
  PROVE  /\ Posted' = Posted /\ \A m \in Posted : moves'[m] = moves[m]
         /\ \A j \in Journals : PostedIn(j)' = PostedIn(j)
<1>1. CASE Bystander
  BY <1>1 DEF Bystander, Posted, PostedIn
<1>2. CASE Redraft
  <2>1. PICK m \in MoveIds, r \in MoveRows :
          /\ moves[m].state # "posted" /\ r.state # "posted"
          /\ moves' = [moves EXCEPT ![m] = r]
    BY <1>2 DEF Redraft
  <2>2. moves'[m] = r /\ \A o \in MoveIds \ {m} : moves'[o] = moves[o]
    BY <2>1 DEF TypeOK
  <2>3. Posted' = Posted
    BY <2>1, <2>2 DEF Posted
  <2>4. \A o \in Posted : moves'[o] = moves[o]
    BY <2>1, <2>2 DEF Posted
  <2> QED BY <2>3, <2>4 DEF PostedIn
<1> QED BY <1>1, <1>2

\* Nothing enters or leaves the books of a closed period, and a hard close is
\* final (lockOpenPeriod, UpdatePeriodState).
THEOREM ClosedPeriodsStaySealed == Spec => ClosedPeriodSealed
<1> DEFINE Sealed ==
      \A p \in Periods : periods[p] # "open" =>
        /\ {m \in Posted : moves[m].period = p}' = {m \in Posted : moves[m].period = p}
        /\ periods[p] = "hard_closed" => periods'[p] = "hard_closed"
<1>1. TypeOK /\ JournalsExist /\ [Next]_vars => [Sealed]_vars
  <2> SUFFICES ASSUME TypeOK, JournalsExist, [Next]_vars
               PROVE  Sealed
    OBVIOUS
  <2>1. CASE Bystander \/ Redraft
    <3>1. Posted' = Posted /\ \A m \in Posted : moves'[m] = moves[m]
      BY <2>1, PostedSame
    <3>2. \A p \in Periods : periods[p] = "hard_closed" => periods'[p] = "hard_closed"
      BY <2>1 DEF Bystander, Redraft
    <3> QED BY <3>1, <3>2
  <2>2. CASE Posting
    <3>1. PICK m \in MoveIds, row \in MoveRows, actor \in Actors \cup {NoActor}, entity \in MoveIds,
               action \in {"POST", "REVERSE", "INGEST_POST"} :
            /\ moves[m].state # "posted" /\ Publish(m, row, actor, entity, action)
            /\ periods[row.period] = "open" /\ UNCHANGED periods
      BY <2>2 DEF Posting
    <3>2. Posted' = Posted \cup {m} /\ \A o \in Posted : moves'[o] = moves[o]
      BY <3>1, PostedInAfter
    <3>3. moves'[m].period = row.period
      BY <3>1, Published
    <3> QED BY <3>1, <3>2, <3>3
  <2> QED BY <2>1, <2>2, StepKinds
<1> QED BY <1>1, BaseInvariant, PTL DEF Spec, ClosedPeriodSealed

-----------------------------------------------------------------------------
\* Legal numbering.

LEMMA GaplessStep == TypeOK /\ JournalsExist /\ GaplessNumbering /\ [Next]_vars => GaplessNumbering'
<1> SUFFICES ASSUME TypeOK, JournalsExist, GaplessNumbering, [Next]_vars, NEW j \in Journals
             PROVE  /\ {Number(m) : m \in PostedIn(j)}' = 1 .. journals'[j].next - 1
                    /\ \A m, o \in PostedIn(j)' : Number(m)' = Number(o)' => m = o
  BY DEF GaplessNumbering
<1>1. /\ {Number(m) : m \in PostedIn(j)} = 1 .. journals[j].next - 1
      /\ \A m, o \in PostedIn(j) : Number(m) = Number(o) => m = o
  BY DEF GaplessNumbering
<1>2. journals[j].next \in Nat
  BY DEF TypeOK
<1>3. ASSUME PostedIn(j)' = PostedIn(j), \A m \in PostedIn(j) : moves'[m] = moves[m],
             \/ journals'[j].next = journals[j].next
             \/ journals[j].next = 0 /\ journals'[j].next = 1
      PROVE  /\ {Number(m) : m \in PostedIn(j)}' = 1 .. journals'[j].next - 1
             /\ \A m, o \in PostedIn(j)' : Number(m)' = Number(o)' => m = o
  <2>1. \A m \in PostedIn(j) : Number(m)' = Number(m)
    BY <1>3 DEF Number
  <2>2. {Number(m) : m \in PostedIn(j)}' = {Number(m) : m \in PostedIn(j)}
    BY <1>3, <2>1
  <2>3. 1 .. journals'[j].next - 1 = 1 .. journals[j].next - 1
    BY <1>2, <1>3
  <2> QED BY <1>1, <1>3, <2>1, <2>2, <2>3
<1>4. CASE Bystander \/ Redraft
  <2>1. PostedIn(j)' = PostedIn(j) /\ \A m \in PostedIn(j) : moves'[m] = moves[m]
    BY <1>4, PostedSame DEF PostedIn
  <2>2. \/ journals'[j].next = journals[j].next
        \/ journals[j].next = 0 /\ journals'[j].next = 1
    BY <1>4 DEF Bystander, Redraft
  <2> QED BY <1>3, <2>1, <2>2
<1>5. CASE Posting
  <2>1. PICK m \in MoveIds, row \in MoveRows, actor \in Actors \cup {NoActor}, entity \in MoveIds,
             action \in {"POST", "REVERSE", "INGEST_POST"} :
          /\ moves[m].state # "posted" /\ journals[row.journal].next > 0
          /\ Publish(m, row, actor, entity, action)
    BY <1>5 DEF Posting
  <2>2. /\ m \notin Posted
        /\ PostedIn(row.journal)' = PostedIn(row.journal) \cup {m}
        /\ j # row.journal => PostedIn(j)' = PostedIn(j)
        /\ \A o \in Posted : moves'[o] = moves[o]
    BY <2>1, PostedInAfter
  <2>3. /\ moves'[m].name = NextName(row.journal)
        /\ journals'[row.journal].next = journals[row.journal].next + 1
        /\ j # row.journal => journals'[j] = journals[j]
    BY <2>1, Published
  <2>4. CASE j # row.journal
    BY <1>3, <2>2, <2>3, <2>4 DEF PostedIn
  <2>5. CASE j = row.journal
    <3>1. Number(m)' = journals[j].next
      BY <2>3, <2>5 DEF Number, NextName
    <3>2. \A o \in PostedIn(j) : Number(o)' = Number(o) /\ Number(o) \in 1 .. journals[j].next - 1
      BY <1>1, <2>2 DEF Number, PostedIn
    <3>3. PostedIn(j)' = PostedIn(j) \cup {m}
      BY <2>2, <2>5
    <3>4. {Number(o) : o \in PostedIn(j)}' = {Number(o) : o \in PostedIn(j)} \cup {journals[j].next}
      BY <3>1, <3>2, <3>3
    <3>5. journals'[j].next = journals[j].next + 1 /\ journals[j].next > 0
      BY <2>1, <2>3, <2>5
    <3>6. (1 .. journals[j].next - 1) \cup {journals[j].next} = 1 .. journals'[j].next - 1
      BY <1>2, <3>5
    <3>7. \A o, x \in PostedIn(j)' : Number(o)' = Number(x)' => o = x
      BY <1>1, <1>2, <3>1, <3>2, <3>3
    <3> QED BY <1>1, <3>4, <3>6, <3>7
  <2> QED BY <2>4, <2>5
<1> QED BY <1>4, <1>5, StepKinds

LEMMA GaplessInit == Init => GaplessNumbering
<1> SUFFICES ASSUME Init, NEW j \in Journals
             PROVE  /\ {Number(m) : m \in PostedIn(j)} = 1 .. journals[j].next - 1
                    /\ \A m, o \in PostedIn(j) : Number(m) = Number(o) => m = o
  BY DEF GaplessNumbering
<1>1. PostedIn(j) = {}
  BY DEF Init, PostedIn, Posted, AbsentRow
<1>2. journals[j].next = 0
  BY DEF Init
<1> QED BY <1>1, <1>2

\* The legal numbers of every journal run from 1 without gap or repetition, for
\* any number of journals, moves and concurrent requests
\* (GetNextSequenceWithLock).
THEOREM NumberingIsGapless == Spec => []GaplessNumbering
<1>1. TypeOK /\ JournalsExist /\ GaplessNumbering /\ [Next]_vars => GaplessNumbering'
  BY GaplessStep
<1> QED BY <1>1, GaplessInit, BaseInvariant, PTL DEF Spec

-----------------------------------------------------------------------------
\* The chain of hashes.

\* A posting signs the latest name of its journal.
LEMMA SignsLatest ==
  ASSUME NEW j \in Journals, NEW last \in LastPosted(j)
  PROVE  IF PostedIn(j) = {} THEN last = NoMove
         ELSE /\ last \in PostedIn(j)
              /\ \A o \in PostedIn(j) \ {last} : NameBefore(moves[o].name, moves[last].name)
BY DEF LastPosted

LEMMA ChainStep ==
  ASSUME TypeOK, JournalsExist, GaplessNumbering, ChainLinear, [Next]_vars
  PROVE  ChainLinear'
<1> DEFINE Below(m, j) == {o \in PostedIn(j) : Number(o) < Number(m)}
           Linked(m, j) ==
             IF Below(m, j) = {} THEN moves[m].previous = NoMove
             ELSE /\ moves[m].previous \in Below(m, j)
                  /\ \A o \in Below(m, j) \ {moves[m].previous} :
                       NameBefore(moves[o].name, moves[moves[m].previous].name)
<1> SUFFICES ASSUME NEW j \in Journals, NEW m \in PostedIn(j)'
             PROVE  Linked(m, j)'
  BY DEF ChainLinear
<1>1. \A o \in PostedIn(j) : Linked(o, j)
  BY DEF ChainLinear
<1>2. ASSUME m \in PostedIn(j), Below(m, j)' = Below(m, j),
             \A o \in PostedIn(j) : moves'[o] = moves[o]
      PROVE  Linked(m, j)'
  <2>1. Below(m, j) \subseteq PostedIn(j) /\ moves'[m] = moves[m]
    BY <1>2
  <2>2. Linked(m, j)
    BY <1>1, <1>2
  <2> HIDE DEF Below
  <2> QED BY <1>2, <2>1, <2>2 DEF NameBefore
<1>3. CASE Bystander \/ Redraft
  <2>1. PostedIn(j)' = PostedIn(j) /\ \A o \in PostedIn(j) : moves'[o] = moves[o]
    BY <1>3, PostedSame DEF PostedIn
  <2>2. Below(m, j)' = Below(m, j)
    BY <2>1 DEF Number
  <2> QED BY <1>2, <2>1, <2>2
<1>4. CASE Posting
  <2>1. PICK x \in MoveIds, row \in MoveRows, actor \in Actors \cup {NoActor}, entity \in MoveIds,
             action \in {"POST", "REVERSE", "INGEST_POST"} :
          /\ moves[x].state # "posted" /\ journals[row.journal].next > 0
          /\ Publish(x, row, actor, entity, action)
    BY <1>4 DEF Posting
  <2>2. /\ x \notin Posted
        /\ PostedIn(row.journal)' = PostedIn(row.journal) \cup {x}
        /\ j # row.journal => PostedIn(j)' = PostedIn(j)
        /\ \A o \in Posted : moves'[o] = moves[o]
    BY <2>1, PostedInAfter
  <2>3. \A o \in PostedIn(j) : moves'[o] = moves[o] /\ Number(o)' = Number(o)
    BY <2>2 DEF PostedIn, Number
  <2>4. CASE j # row.journal
    <3>1. Below(m, j)' = Below(m, j)
      BY <2>2, <2>3, <2>4
    <3> QED BY <1>2, <2>2, <2>3, <2>4, <3>1
  <2>5. CASE j = row.journal
    <3>1. /\ moves'[x].name = NextName(j) /\ moves'[x].previous \in LastPosted(j)
      BY <2>1, <2>5, Published
    <3>2. Number(x)' = journals[j].next
      BY <3>1 DEF Number, NextName
    <3>3. journals[j].next \in Nat /\ \A o \in PostedIn(j) : Number(o) \in 1 .. journals[j].next - 1
      BY DEF GaplessNumbering, TypeOK
    <3>4. \A o \in PostedIn(j) : Number(o) \in Nat /\ Number(o) < journals[j].next
      BY <3>3
    <3>5. x \notin PostedIn(j) /\ PostedIn(j)' = PostedIn(j) \cup {x}
      BY <2>2, <2>5 DEF PostedIn
    <3>6. CASE m # x
      <4>1. m \in PostedIn(j)
        BY <3>5, <3>6
      <4>2. Below(m, j)' = Below(m, j)
        BY <2>3, <3>2, <3>3, <3>4, <3>5, <4>1
      <4> QED BY <1>2, <2>3, <4>1, <4>2
    <3>7. CASE m = x
      <4>1. Below(x, j)' = PostedIn(j)
        BY <2>3, <3>2, <3>3, <3>4, <3>5
      <4>2. IF PostedIn(j) = {} THEN moves'[x].previous = NoMove
            ELSE /\ moves'[x].previous \in PostedIn(j)
                 /\ \A o \in PostedIn(j) \ {moves'[x].previous} :
                      NameBefore(moves[o].name, moves[moves'[x].previous].name)
        BY <3>1, SignsLatest
      <4>3. ASSUME PostedIn(j) # {}
            PROVE  /\ moves'[x].previous \in PostedIn(j)
                   /\ \A o \in PostedIn(j) \ {moves'[x].previous} :
                        NameBefore(moves'[o].name, moves'[moves'[x].previous].name)
        BY <2>3, <4>2, <4>3 DEF NameBefore
      <4> HIDE DEF Below
      <4> QED BY <3>7, <4>1, <4>2, <4>3
    <3> QED BY <3>6, <3>7
  <2> QED BY <2>4, <2>5
<1> QED BY <1>3, <1>4, StepKinds

\* A move signs the latest name among those numbered below it in its journal,
\* however many requests post at once, whatever prefixes the journals share or
\* trade and however long the numbers grow (previousPostedMoveHash).
THEOREM HashesFormAChain == Spec => []ChainLinear
<1>1. Init => ChainLinear
  BY DEF Init, ChainLinear, PostedIn, Posted, AbsentRow
<1>2. TypeOK /\ JournalsExist /\ GaplessNumbering /\ ChainLinear /\ [Next]_vars => ChainLinear'
  BY ChainStep
<1> QED BY <1>1, <1>2, BaseInvariant, NumberingIsGapless, PTL DEF Spec

\* The names of the journal sort as its numbers do.
NamesInOrder(j) ==
  \A m, o \in PostedIn(j) : Number(m) < Number(o) => ~NameBefore(moves[o].name, moves[m].name)

\* m signs the move numbered just before it in its journal, as docs/implt.md:118 asks of
\* hashMove.
LinksToPrevious(m) ==
  IF Number(m) = 1 THEN moves[m].previous = NoMove
  ELSE /\ moves[m].previous \in PostedIn(moves[m].journal)
       /\ Number(moves[m].previous) = Number(m) - 1

\* Then its hashes form one chain.
LEMMA InOrderIsOneChain ==
  ASSUME TypeOK, GaplessNumbering, ChainLinear, NEW j \in Journals, NamesInOrder(j)
  PROVE  \A m \in PostedIn(j) : LinksToPrevious(m)
<1> SUFFICES ASSUME NEW m \in PostedIn(j) PROVE LinksToPrevious(m)
  OBVIOUS
<1> DEFINE below == {o \in PostedIn(j) : Number(o) < Number(m)}
<1>1. /\ {Number(o) : o \in PostedIn(j)} = 1 .. journals[j].next - 1
      /\ journals[j].next \in Nat
  BY DEF GaplessNumbering, TypeOK
<1>2. \A o \in PostedIn(j) : Number(o) \in 1 .. journals[j].next - 1
  BY <1>1
<1>3. IF below = {} THEN moves[m].previous = NoMove
      ELSE /\ moves[m].previous \in below
           /\ \A o \in below \ {moves[m].previous} :
                NameBefore(moves[o].name, moves[moves[m].previous].name)
  BY DEF ChainLinear
<1>4. CASE Number(m) = 1
  <2>1. below = {}
    BY <1>1, <1>2, <1>4
  <2> QED BY <1>3, <1>4, <2>1 DEF LinksToPrevious
<1>5. CASE Number(m) # 1
  <2>1. PICK z \in PostedIn(j) : Number(z) = Number(m) - 1
    <3>1. Number(m) - 1 \in 1 .. journals[j].next - 1
      BY <1>1, <1>2, <1>5
    <3> QED BY <1>1, <3>1
  <2>2. z \in below
    BY <1>2, <2>1
  <2>3. /\ moves[m].previous \in below
        /\ moves[m].previous # z => NameBefore(moves[z].name, moves[moves[m].previous].name)
    BY <1>3, <2>2
  <2>4. Number(moves[m].previous) = Number(m) - 1
    <3>1. CASE moves[m].previous = z
      BY <2>1, <3>1
    <3>2. CASE moves[m].previous # z
      <4>1. ~(Number(moves[m].previous) < Number(z))
        BY <2>3, <3>2 DEF NamesInOrder
      <4> QED BY <1>1, <1>2, <2>1, <2>3, <4>1
    <3> QED BY <3>1, <3>2
  <2> QED BY <1>5, <2>3, <2>4 DEF LinksToPrevious, PostedIn
<1> QED BY <1>4, <1>5

\* Whenever the names of a journal sort as its numbers, which a prefix traded for
\* an earlier one or a number that outgrows its padding undoes, its hashes form
\* one chain in the order of the numbers.
THEOREM OrderedNamesFormOneChain ==
  Spec => [](\A j \in Journals : NamesInOrder(j) => \A m \in PostedIn(j) : LinksToPrevious(m))
<1>1. TypeOK /\ GaplessNumbering /\ ChainLinear
        => \A j \in Journals : NamesInOrder(j) => \A m \in PostedIn(j) : LinksToPrevious(m)
  BY InOrderIsOneChain
<1> QED BY <1>1, BaseInvariant, NumberingIsGapless, HashesFormAChain, PTL

(***************************************************************************)
(* The controls of the ledger: what is posted is what was reviewed, it     *)
(* balances, above the threshold two users saw it, a reversal undoes one   *)
(* move once, a key names one move and the audit log tells all of it.      *)
(*                                                                         *)
(* They rest on what a request still knows of the database between its     *)
(* steps (RequestSound): the copy of a draft it holds is the row itself as *)
(* long as the version of the row has not moved.                           *)
(***************************************************************************)
-----------------------------------------------------------------------------
\* What a request knows.

\* As long as the draft m is at the version that was read, its header is the one
\* that was read.
Fresh(row, m, table) ==
  /\ row.version <= table[m].version
  /\ (table[m].state = "draft" /\ table[m].version = row.version)
       => [row EXCEPT !.lines = table[m].lines] = table[m]

\* And so are its lines.
Reviewed(row, m, table) ==
  (table[m].state = "draft" /\ table[m].version = row.version) => row.lines = table[m].lines

RequestSound(q, table) ==
  /\ q.op \in {"read", "post"} => Fresh(q.row, Head(q.queue), table)
  /\ q.op = "post" => Reviewed(q.row, Head(q.queue), table) /\ MayPost(q.row, q.actor)
  /\ q.op = "reverse" =>
       table[q.original].state = "posted" /\ table[q.original].journal = q.journal
  /\ q.op = "ingest" => Stored(q.row.lines) = q.row.lines /\ q.row.reverses = NoMove

\* What the columns hold was rounded when it was written; only a posted move
\* reverses another.
RowsSound ==
  \A m \in MoveIds :
    /\ moves[m].state # "absent" => Stored(moves[m].lines) = moves[m].lines
    /\ moves[m].state # "posted" => moves[m].reverses = NoMove

RequestsSound == \A w \in Workers : RequestSound(workers[w], moves)

Sound == RowsSound /\ RequestsSound

-----------------------------------------------------------------------------
\* A row is left alone or moves to a version of its own.
LEMMA RowSteps ==
  ASSUME TypeOK, JournalsExist, [Next]_vars, NEW m \in MoveIds
  PROVE  \/ moves'[m] = moves[m]
         \/ /\ moves[m].state # "posted" /\ moves'[m].version >= moves[m].version
            /\ moves'[m].state = "draft" => moves'[m].version > moves[m].version
<1>1. CASE Bystander
  BY <1>1 DEF Bystander
<1>2. CASE Redraft
  BY <1>2 DEF Redraft, TypeOK
<1>3. CASE Posting
  <2>1. PICK x \in MoveIds, row \in MoveRows, actor \in Actors \cup {NoActor}, entity \in MoveIds,
             action \in {"POST", "REVERSE", "INGEST_POST"} :
          /\ moves[x].state # "posted" /\ row.version > moves[x].version
          /\ Publish(x, row, actor, entity, action)
    BY <1>3 DEF Posting
  <2>2. /\ moves'[x].state = "posted" /\ moves'[x].version = row.version
        /\ \A o \in MoveIds \ {x} : moves'[o] = moves[o]
    BY <2>1, Published
  <2>3. row.version \in Nat /\ moves[x].version \in Nat
    BY DEF TypeOK, MoveRows
  <2> QED BY <2>1, <2>2, <2>3
<1> QED BY <1>1, <1>2, <1>3, StepKinds

\* Whatever a request knows stays true while others work.
LEMMA SoundKept ==
  ASSUME TypeOK, JournalsExist, [Next]_vars, NEW q \in WorkerStates, RequestSound(q, moves)
  PROVE  RequestSound(q, moves')
<1>1. CASE q.op \in {"read", "post"}
  <2> DEFINE m == Head(q.queue)
  <2>1. m \in MoveIds /\ q.row \in MoveRows
    BY <1>1, StateShapes, QueueParts DEF PostWorkers
  <2>2. q.row.version \in Nat /\ moves[m].version \in Nat /\ moves'[m].version \in Nat
    BY <2>1, StepType DEF TypeOK, MoveRows
  <2>3. CASE moves'[m] = moves[m]
    BY <1>1, <2>3 DEF RequestSound, Fresh, Reviewed
  <2>4. CASE /\ moves'[m].version >= moves[m].version
             /\ moves'[m].state = "draft" => moves'[m].version > moves[m].version
    <3>1. Fresh(q.row, m, moves)
      BY <1>1 DEF RequestSound
    <3> HIDE DEF m
    <3>2. Fresh(q.row, m, moves') /\ Reviewed(q.row, m, moves')
      BY <2>2, <2>4, <3>1 DEF Fresh, Reviewed
    <3> QED BY <1>1, <3>2 DEF RequestSound, m
  <2> QED BY <2>1, <2>3, <2>4, RowSteps
<1>2. CASE q.op = "reverse"
  <2>1. q.original \in MoveIds
    BY <1>2, StateShapes DEF ReverseWorkers
  <2>2. q.original \in Posted
    BY <1>2, <2>1 DEF RequestSound, Posted
  <2>3. moves'[q.original] = moves[q.original]
    BY <2>2, PostedKept
  <2> QED BY <1>2, <2>3 DEF RequestSound
<1>3. CASE q.op \notin {"read", "post", "reverse"}
  BY <1>3 DEF RequestSound
<1> QED BY <1>1, <1>2, <1>3

LEMMA GoesThere ==
  ASSUME TypeOK, NEW w \in Workers, NEW state, Goes(w, state)
  PROVE  workers'[w] = state /\ \A o \in Workers \ {w} : workers'[o] = workers[o]
  BY DEF Goes, TypeOK

\* What a step teaches a request is true when it learns it.
Learns(w) ==
  \/ workers'[w] = workers[w]
  \/ workers'[w].op \in {"idle", "save", "bulk", "lookup"}
  \/ UNCHANGED moves /\ RequestSound(workers'[w], moves)

LEMMA BeginLearns ==
  ASSUME TypeOK, NEW w \in Workers, NEW j \in Journals, NEW p \in Periods, NEW e \in Drafts,
         \/ \E a \in Actors \cup {NoActor} : CreateDraft(w, j, p, e, a)
         \/ \E m \in MoveIds : UpdateDraft(w, m, j, p, e)
         \/ \E k \in Keys : BeginIngest(w, k, j, p, e)
  PROVE  \A o \in Workers : Learns(o)
<1>1. e \in Entries
  BY DraftAssumption
<1>2. ASSUME NEW a \in Actors \cup {NoActor}, CreateDraft(w, j, p, e, a)
      PROVE  \A o \in Workers : Learns(o)
  <2> DEFINE state == [op |-> "save", id |-> NoMove, row |-> DraftRow(j, p, e, 0, a)]
  <2>1. Goes(w, state) /\ state.op = "save"
    BY <1>2 DEF CreateDraft
  <2> HIDE DEF state
  <2> QED BY <2>1, GoesThere DEF Learns
<1>3. ASSUME NEW m \in MoveIds, UpdateDraft(w, m, j, p, e)
      PROVE  \A o \in Workers : Learns(o)
  <2> DEFINE state == [op |-> "save", id |-> m,
                       row |-> [moves[m] EXCEPT !.journal = j, !.period = p, !.lines = e]]
  <2>1. Goes(w, state) /\ state.op = "save"
    BY <1>3 DEF UpdateDraft
  <2> HIDE DEF state
  <2> QED BY <2>1, GoesThere DEF Learns
<1>4. ASSUME NEW k \in Keys, BeginIngest(w, k, j, p, e)
      PROVE  \A o \in Workers : Learns(o)
  <2> DEFINE row == DraftRow(j, p, Stored(e), 0, NoActor)
             state == [op |-> "ingest", key |-> k, row |-> row]
  <2>1. row.lines = Stored(e) /\ row.reverses = NoMove
    BY DEF DraftRow, AbsentRow
  <2> HIDE DEF row
  <2>2. Stored(row.lines) = row.lines
    BY <1>1, <2>1, StoredTwice
  <2>3. RequestSound(state, moves)
    BY <2>1, <2>2 DEF RequestSound
  <2>4. Goes(w, state) /\ UNCHANGED moves
    BY <1>4 DEF BeginIngest, row
  <2> HIDE DEF state
  <2> QED BY <2>3, <2>4, GoesThere DEF Learns
<1> QED BY <1>2, <1>3, <1>4

LEMMA ReadLearns ==
  ASSUME TypeOK, RequestsSound, NEW w \in Workers,
         \/ \E q \in Requested, a \in Actors : BeginPosting(w, q, a)
         \/ \E m \in MoveIds, p \in Periods, a \in Actors : BeginReverse(w, m, p, a)
         \/ ReadHeader(w) \/ ReadLines(w)
  PROVE  \A o \in Workers : Learns(o)
<1>1. ASSUME NEW q \in Requested, NEW a \in Actors, BeginPosting(w, q, a)
      PROVE  \A o \in Workers : Learns(o)
  <2> DEFINE state == [op |-> "bulk", queue |-> q, done |-> {}, actor |-> a]
  <2>1. Goes(w, state) /\ state.op = "bulk"
    BY <1>1 DEF BeginPosting
  <2> HIDE DEF state
  <2> QED BY <2>1, GoesThere DEF Learns
<1>2. ASSUME NEW m \in MoveIds, NEW p \in Periods, NEW a \in Actors, BeginReverse(w, m, p, a)
      PROVE  \A o \in Workers : Learns(o)
  <2> DEFINE state == [op |-> "reverse", original |-> m, journal |-> moves[m].journal,
                       period |-> p, actor |-> a]
  <2>1. Goes(w, state) /\ UNCHANGED moves /\ RequestSound(state, moves)
    BY <1>2 DEF BeginReverse, RequestSound
  <2> HIDE DEF state
  <2> QED BY <2>1, GoesThere DEF Learns
<1>3. ASSUME ReadHeader(w)
      PROVE  \A o \in Workers : Learns(o)
  <2> DEFINE m == Head(workers[w].queue)
             row == [moves[m] EXCEPT !.lines = NoEntry]
             state == [op |-> "read", queue |-> workers[w].queue, done |-> workers[w].done,
                       actor |-> workers[w].actor, row |-> row]
  <2>1. m \in MoveIds
    BY <1>3, WorkerShapes, QueueParts DEF ReadHeader, BulkWorkers
  <2>2. moves[m] \in MoveRows
    BY <2>1 DEF TypeOK
  <2>3. row.version = moves[m].version /\ [row EXCEPT !.lines = moves[m].lines] = moves[m]
    <3> HIDE DEF m
    <3> QED BY <2>2 DEF MoveRows
  <2>4. Goes(w, state) /\ UNCHANGED moves
    BY <1>3 DEF ReadHeader
  <2>5. Fresh(row, m, moves)
    <3>1. moves[m].version \in Nat
      BY <2>2 DEF MoveRows
    <3> HIDE DEF row, m
    <3> QED BY <2>3, <3>1 DEF Fresh
  <2>6. RequestSound(state, moves)
    <3>1. state.op = "read" /\ state.row = row /\ Head(state.queue) = m
      OBVIOUS
    <3> HIDE DEF row, m, state
    <3> QED BY <2>5, <3>1 DEF RequestSound
  <2> HIDE DEF state
  <2> QED BY <2>4, <2>6, GoesThere DEF Learns
<1>4. ASSUME ReadLines(w)
      PROVE  \A o \in Workers : Learns(o)
  <2> DEFINE req == workers[w]
             m == Head(req.queue)
             row == [req.row EXCEPT !.lines = moves[m].lines]
             state == [req EXCEPT !.op = "post", !.row = row]
  <2>1. req \in PostWorkers /\ req.op = "read"
    BY <1>4, WorkerShapes DEF ReadLines, Doing
  <2>2. /\ Goes(w, state) /\ UNCHANGED moves /\ MayPost(row, req.actor)
    BY <1>4 DEF ReadLines
  <2>3. Fresh(req.row, m, moves)
    BY <2>1 DEF RequestsSound, RequestSound
  <2>4. state.op = "post" /\ state.row = row /\ Head(state.queue) = m /\ state.actor = req.actor
    <3> HIDE DEF row
    <3> QED BY <2>1 DEF PostWorkers
  <2>5. row.lines = moves[m].lines /\ row.version = req.row.version
        /\ [row EXCEPT !.lines = moves[m].lines] = row
    <3>1. req.row \in MoveRows
      BY <2>1 DEF PostWorkers
    <3> HIDE DEF req, m
    <3> QED BY <3>1 DEF MoveRows
  <2>6. Fresh(row, m, moves) /\ Reviewed(row, m, moves)
    BY <2>3, <2>5 DEF Fresh, Reviewed
  <2>7. RequestSound(state, moves)
    <3> HIDE DEF row, m, state, req
    <3> QED BY <2>2, <2>4, <2>6 DEF RequestSound
  <2> HIDE DEF state
  <2> QED BY <2>2, <2>7, GoesThere DEF Learns
<1> QED BY <1>1, <1>2, <1>3, <1>4

\* The steps that end a request, or go on to the next move of its queue.
LEMMA EndLearns ==
  ASSUME TypeOK, NEW w \in Workers,
         SaveDraft(w) \/ PostMove(w) \/ ReverseMove(w) \/ IngestEvent(w) \/ IngestFails(w)
           \/ LookUp(w) \/ Fail(w)
  PROVE  \A o \in Workers : Learns(o)
<1>1. Idle.op = "idle"
  BY DEF Idle
<1>2. PICK state : Goes(w, state) /\ state.op \in {"idle", "bulk", "lookup"}
  <2>1. CASE SaveDraft(w) \/ ReverseMove(w) \/ LookUp(w) \/ Fail(w)
    BY <1>1, <2>1 DEF SaveDraft, ReverseMove, LookUp, Fail
  <2>2. CASE PostMove(w)
    <3> DEFINE req == workers[w]
               next == [op |-> "bulk", queue |-> Tail(req.queue),
                        done |-> req.done \cup {Head(req.queue)}, actor |-> req.actor]
    <3>1. Goes(w, IF Tail(req.queue) = <<>> THEN Idle ELSE next) /\ next.op = "bulk"
      BY <2>2 DEF PostMove
    <3> HIDE DEF next
    <3> QED BY <1>1, <3>1
  <2>3. CASE IngestEvent(w) \/ IngestFails(w)
    <3> DEFINE next == [op |-> "lookup", key |-> workers[w].key]
    <3>1. Goes(w, Idle) \/ Goes(w, next)
      BY <2>3 DEF IngestEvent, IngestFails
    <3>2. next.op = "lookup"
      OBVIOUS
    <3> HIDE DEF next
    <3> QED BY <1>1, <3>1, <3>2
  <2> QED BY <2>1, <2>2, <2>3
<1> QED BY <1>2, GoesThere DEF Learns

LEMMA StepLearns ==
  ASSUME TypeOK, RequestsSound, [Next]_vars
  PROVE  \A w \in Workers : Learns(w)
<1>1. CASE UNCHANGED workers
  BY <1>1 DEF Learns
<1>2. ASSUME NEW w \in Workers, NEW j \in Journals, NEW p \in Periods, NEW e \in Drafts,
             \/ \E a \in Actors \cup {NoActor} : CreateDraft(w, j, p, e, a)
             \/ \E m \in MoveIds : UpdateDraft(w, m, j, p, e)
             \/ \E k \in Keys : BeginIngest(w, k, j, p, e)
      PROVE  \A o \in Workers : Learns(o)
  BY <1>2, BeginLearns
<1>3. ASSUME NEW w \in Workers,
             \/ \E q \in Requested, a \in Actors : BeginPosting(w, q, a)
             \/ \E m \in MoveIds, p \in Periods, a \in Actors : BeginReverse(w, m, p, a)
             \/ ReadHeader(w) \/ ReadLines(w)
      PROVE  \A o \in Workers : Learns(o)
  BY <1>3, ReadLearns
<1>4. ASSUME NEW w \in Workers,
             SaveDraft(w) \/ PostMove(w) \/ ReverseMove(w) \/ IngestEvent(w) \/ IngestFails(w)
               \/ LookUp(w) \/ Fail(w)
      PROVE  \A o \in Workers : Learns(o)
  BY <1>4, EndLearns
<1>5. /\ \A m \in MoveIds : DeleteDraft(m) => UNCHANGED workers
      /\ \A k \in Keys : AnswerKnown(k) => UNCHANGED workers
      /\ \A p \in Periods, s \in PeriodStates : ChangePeriodState(p, s) => UNCHANGED workers
      /\ \A j \in Journals : \A x \in PrefixesOf[j] :
           CreateJournal(j, x) \/ (\E b \in BOOLEAN : UpdateJournal(j, x, b)) => UNCHANGED workers
  BY DEF DeleteDraft, AnswerKnown, ChangePeriodState, CreateJournal, UpdateJournal
<1>6. CASE UNCHANGED vars
  BY <1>1, <1>6 DEF vars
<1>7. CASE Next
  BY <1>1, <1>2, <1>3, <1>4, <1>5, <1>7 DEF Next
<1> QED BY <1>6, <1>7

-----------------------------------------------------------------------------
\* What the three posting transactions do, given what their requests know.

\* The draft m, as it stands, is posted by an actor who may.
PostsDraft ==
  /\ \E m \in MoveIds, actor \in Actors :
       /\ moves[m].state = "draft" /\ Balanced(moves[m].lines) /\ MayPost(moves[m], actor)
       /\ Publish(m, [moves[m] EXCEPT !.version = @ + 1], actor, m, "POST")
  /\ UNCHANGED <<events, replies>>

\* A new move undoes a posted move that no other undoes.
Reverses ==
  /\ \E m \in Unused, o \in Posted, row \in MoveRows, actor \in Actors :
       /\ row.journal = moves[o].journal /\ row.lines = Stored(Mirror(moves[o].lines))
       /\ row.reverses = o /\ \A x \in MoveIds : moves[x].reverses # o
       /\ Publish(m, row, actor, o, "REVERSE")
  /\ UNCHANGED <<events, replies>>

\* A new move answers a key that had none.
Ingests ==
  \E m \in Unused, row \in MoveRows, k \in Keys :
    /\ row.reverses = NoMove /\ Stored(row.lines) = row.lines /\ Balanced(row.lines)
    /\ Publish(m, row, NoActor, m, "INGEST_POST")
    /\ events[k] = NoMove /\ events' = [events EXCEPT ![k] = m]
    /\ Reply(k, m) \/ UNCHANGED replies

\* Nothing is posted, and no key is answered with anything but its move.
Quiet ==
  /\ Bystander \/ Redraft
  /\ UNCHANGED events
  /\ \A k \in Keys : replies'[k] \subseteq replies[k] \cup ({events[k]} \ {NoMove})

LEMMA PostMoveDoes ==
  ASSUME TypeOK, Sound, NEW w \in Workers, PostMove(w)
  PROVE  PostsDraft
<1> DEFINE req == workers[w]
           m == Head(req.queue)
<1>1. req \in PostWorkers /\ req.op = "post"
  BY WorkerShapes DEF PostMove, Doing
<1>2. m \in MoveIds /\ req.actor \in Actors /\ req.row \in MoveRows
  BY <1>1, QueueParts DEF PostWorkers
<1>3. moves[m] \in MoveRows
  BY <1>2 DEF TypeOK
<1>4. /\ SameRow(req.row, m) /\ ValidateBalance(req.row)
      /\ Publish(m, [moves[m] EXCEPT !.lines = Stored(req.row.lines), !.version = @ + 1],
                 req.actor, m, "POST")
      /\ UNCHANGED <<events, replies>>
  BY DEF PostMove
<1>5. Fresh(req.row, m, moves) /\ Reviewed(req.row, m, moves) /\ MayPost(req.row, req.actor)
  BY <1>1 DEF Sound, RequestsSound, RequestSound
<1> HIDE DEF req, m
<1>6. moves[m].state = "draft" /\ moves[m].version = req.row.version
  BY <1>4 DEF SameRow
<1>7. req.row.lines = moves[m].lines /\ [req.row EXCEPT !.lines = moves[m].lines] = moves[m]
  BY <1>5, <1>6 DEF Fresh, Reviewed
<1>8. req.row.createdBy = moves[m].createdBy
  BY <1>2, <1>3, <1>7 DEF MoveRows
<1>9. Stored(moves[m].lines) = moves[m].lines
  BY <1>2, <1>6 DEF Sound, RowsSound
<1>10. [moves[m] EXCEPT !.lines = Stored(req.row.lines), !.version = @ + 1]
         = [moves[m] EXCEPT !.version = @ + 1]
  BY <1>3, <1>7, <1>9 DEF MoveRows
<1>11. MayPost(moves[m], req.actor)
  BY <1>5, <1>7, <1>8 DEF MayPost
<1>12. Balanced(moves[m].lines)
  BY <1>4, <1>7 DEF ValidateBalance
<1> QED BY <1>2, <1>4, <1>6, <1>10, <1>11, <1>12 DEF PostsDraft

LEMMA ReverseMoveDoes ==
  ASSUME TypeOK, Sound, NEW w \in Workers, ReverseMove(w)
  PROVE  Reverses
<1> DEFINE req == workers[w]
           o == req.original
           row == [DraftRow(req.journal, req.period, Stored(Mirror(moves[o].lines)), 1, NoActor)
                     EXCEPT !.reverses = o]
<1>1. req \in ReverseWorkers /\ req.op = "reverse"
  BY WorkerShapes DEF ReverseMove, Doing
<1>2. /\ o \in MoveIds /\ req.journal \in Journals /\ req.period \in Periods
      /\ req.actor \in Actors
  BY <1>1 DEF ReverseWorkers
<1>3. moves[o].state = "posted" /\ moves[o].journal = req.journal
  BY <1>1 DEF Sound, RequestsSound, RequestSound
<1>4. DraftRow(req.journal, req.period, Stored(Mirror(moves[o].lines)), 1, NoActor) \in MoveRows
  BY <1>2, StoredType, MirrorType, DraftRowType DEF TypeOK, MoveRows
<1>5. row \in MoveRows
  <2> HIDE DEF o, req
  <2> QED BY <1>2, <1>4 DEF MoveRows
<1>6. /\ row.journal = req.journal /\ row.lines = Stored(Mirror(moves[o].lines))
      /\ row.reverses = o
  BY DEF DraftRow, AbsentRow
<1>7. /\ \A x \in MoveIds : moves[x].reverses # o
      /\ \E m \in Unused : Publish(m, row, req.actor, o, "REVERSE")
      /\ UNCHANGED <<events, replies>>
  BY DEF ReverseMove
<1>8. o \in Posted
  BY <1>2, <1>3 DEF Posted
<1> HIDE DEF row, o, req
<1> QED BY <1>2, <1>3, <1>5, <1>6, <1>7, <1>8 DEF Reverses

LEMMA IngestEventDoes ==
  ASSUME TypeOK, Sound, NEW w \in Workers, IngestEvent(w)
  PROVE  Ingests
<1> DEFINE req == workers[w]
           k == req.key
           row == [req.row EXCEPT !.version = 1]
<1>1. req \in IngestWorkers /\ req.op = "ingest"
  BY WorkerShapes DEF IngestEvent, Doing
<1>2. k \in Keys /\ req.row \in MoveRows
  BY <1>1 DEF IngestWorkers
<1>3. Stored(req.row.lines) = req.row.lines /\ req.row.reverses = NoMove
  BY <1>1 DEF Sound, RequestsSound, RequestSound
<1>4. ValidateBalance(req.row) /\ events[k] = NoMove
  BY DEF IngestEvent
<1>5. PICK m \in Unused :
        /\ Publish(m, row, NoActor, m, "INGEST_POST")
        /\ events' = [events EXCEPT ![k] = m]
        /\ Reply(k, m) \/ UNCHANGED replies
  BY DEF IngestEvent
<1>6. row \in MoveRows /\ row.lines = req.row.lines /\ row.reverses = req.row.reverses
  <2> HIDE DEF req
  <2> QED BY <1>2 DEF MoveRows
<1> HIDE DEF row, k, req
<1> QED BY <1>2, <1>3, <1>4, <1>5, <1>6 DEF Ingests, ValidateBalance

LEMMA AnswersQuiet ==
  ASSUME TypeOK, NEW k \in Keys, events[k] # NoMove, Reply(k, events[k])
  PROVE  \A l \in Keys : replies'[l] \subseteq replies[l] \cup ({events[l]} \ {NoMove})
  BY DEF TypeOK, Reply

LEMMA StepDoes ==
  ASSUME TypeOK, JournalsExist, Sound, [Next]_vars
  PROVE  Quiet \/ PostsDraft \/ Reverses \/ Ingests
<1>1. CASE UNCHANGED vars
  BY <1>1 DEF vars, Quiet, Bystander
<1>2. ASSUME NEW w \in Workers, NEW j \in Journals, NEW p \in Periods, NEW e \in Drafts,
             \/ \E a \in Actors \cup {NoActor} : CreateDraft(w, j, p, e, a)
             \/ \E m \in MoveIds : UpdateDraft(w, m, j, p, e)
             \/ \E k \in Keys : BeginIngest(w, k, j, p, e)
      PROVE  Quiet
  BY <1>2 DEF CreateDraft, UpdateDraft, BeginIngest, Bystander, Quiet
<1>3. ASSUME NEW w \in Workers,
             \/ \E q \in Requested, a \in Actors : BeginPosting(w, q, a)
             \/ ReadHeader(w) \/ ReadLines(w)
             \/ \E m \in MoveIds, p \in Periods, a \in Actors : BeginReverse(w, m, p, a)
             \/ IngestFails(w) \/ Fail(w)
      PROVE  Quiet
  BY <1>3 DEF BeginPosting, ReadHeader, ReadLines, BeginReverse, IngestFails, Fail,
              Bystander, Quiet
<1>4. ASSUME NEW w \in Workers, LookUp(w)
      PROVE  Quiet
  <2>1. workers[w].key \in Keys
    BY <1>4, WorkerShapes DEF LookUp, LookupWorkers
  <2>2. \A l \in Keys : replies'[l] \subseteq replies[l] \cup ({events[l]} \ {NoMove})
    BY <1>4, <2>1, AnswersQuiet DEF LookUp
  <2> QED BY <1>4, <2>2 DEF LookUp, Bystander, Quiet
<1>5. ASSUME NEW w \in Workers, SaveDraft(w)
      PROVE  Quiet
  BY <1>5, SaveDraftKind DEF SaveDraft, Quiet
<1>6. ASSUME NEW m \in MoveIds, DeleteDraft(m)
      PROVE  Quiet
  BY <1>6, DeleteDraftKind DEF DeleteDraft, Quiet
<1>7. ASSUME NEW k \in Keys, AnswerKnown(k)
      PROVE  Quiet
  BY <1>7, AnswersQuiet DEF AnswerKnown, Bystander, Quiet
<1>8. ASSUME NEW p \in Periods, NEW s \in PeriodStates, ChangePeriodState(p, s)
      PROVE  Quiet
  BY <1>8 DEF ChangePeriodState, PeriodStep, TypeOK, Bystander, Quiet
<1>9. ASSUME NEW j \in Journals, NEW x \in PrefixesOf[j],
             CreateJournal(j, x) \/ \E b \in BOOLEAN : UpdateJournal(j, x, b)
      PROVE  Quiet
  BY <1>9, JournalKind DEF CreateJournal, UpdateJournal, Quiet
<1>10. ASSUME NEW w \in Workers, PostMove(w) \/ ReverseMove(w) \/ IngestEvent(w)
       PROVE  PostsDraft \/ Reverses \/ Ingests
  BY <1>10, PostMoveDoes, ReverseMoveDoes, IngestEventDoes
<1>11. CASE Next
  BY <1>2, <1>3, <1>4, <1>5, <1>6, <1>7, <1>8, <1>9, <1>10, <1>11 DEF Next
<1> QED BY <1>1, <1>11

\* The row of the draft that is posted.
LEMMA NextVersion ==
  ASSUME NEW row \in MoveRows
  PROVE  /\ [row EXCEPT !.version = @ + 1] \in MoveRows
         /\ [row EXCEPT !.version = @ + 1].lines = row.lines
         /\ [row EXCEPT !.version = @ + 1].reverses = row.reverses
         /\ [row EXCEPT !.version = @ + 1].createdBy = row.createdBy
  BY DEF MoveRows

LEMMA RowsStep ==
  ASSUME TypeOK, JournalsExist, Sound, [Next]_vars
  PROVE  RowsSound'
<1> SUFFICES ASSUME NEW x \in MoveIds
             PROVE  /\ moves'[x].state # "absent" => Stored(moves'[x].lines) = moves'[x].lines
                    /\ moves'[x].state # "posted" => moves'[x].reverses = NoMove
  BY DEF RowsSound
<1>1. /\ moves[x].state # "absent" => Stored(moves[x].lines) = moves[x].lines
      /\ moves[x].state # "posted" => moves[x].reverses = NoMove
  BY DEF Sound, RowsSound
<1>2. CASE Quiet
  <2>1. CASE Bystander
    BY <1>1, <2>1 DEF Bystander
  <2>2. CASE Redraft
    BY <1>1, <2>2 DEF Redraft, TypeOK
  <2> QED BY <1>2, <2>1, <2>2 DEF Quiet
<1>3. ASSUME NEW m \in MoveIds, NEW row \in MoveRows, NEW actor, NEW entity, NEW action,
             Publish(m, row, actor, entity, action), Stored(row.lines) = row.lines
      PROVE  /\ moves'[x].state # "absent" => Stored(moves'[x].lines) = moves'[x].lines
             /\ moves'[x].state # "posted" => moves'[x].reverses = NoMove
  BY <1>1, <1>3, Published
<1>4. CASE PostsDraft
  <2>1. PICK m \in MoveIds, actor \in Actors :
          /\ moves[m].state = "draft"
          /\ Publish(m, [moves[m] EXCEPT !.version = @ + 1], actor, m, "POST")
    BY <1>4 DEF PostsDraft
  <2>2. moves[m] \in MoveRows
    BY DEF TypeOK
  <2>3. Stored(moves[m].lines) = moves[m].lines
    BY <2>1 DEF Sound, RowsSound
  <2> QED BY <1>3, <2>1, <2>2, <2>3, NextVersion
<1>5. CASE Reverses
  <2>1. PICK m \in Unused, o \in Posted, row \in MoveRows, actor \in Actors :
          row.lines = Stored(Mirror(moves[o].lines)) /\ Publish(m, row, actor, o, "REVERSE")
    BY <1>5 DEF Reverses
  <2>2. m \in MoveIds /\ moves[o].lines \in Entries
    BY DEF Unused, Posted, TypeOK, MoveRows
  <2>3. Stored(row.lines) = row.lines
    BY <2>1, <2>2, StoredTwice, MirrorType
  <2> QED BY <1>3, <2>1, <2>2, <2>3
<1>6. CASE Ingests
  <2>1. PICK m \in Unused, row \in MoveRows, k \in Keys :
          Stored(row.lines) = row.lines /\ Publish(m, row, NoActor, m, "INGEST_POST")
    BY <1>6 DEF Ingests
  <2>2. m \in MoveIds
    BY DEF Unused
  <2> QED BY <1>3, <2>1, <2>2
<1> QED BY <1>2, <1>4, <1>5, <1>6, StepDoes

LEMMA SoundStep == TypeOK /\ JournalsExist /\ Sound /\ [Next]_vars => Sound'
<1> SUFFICES ASSUME TypeOK, JournalsExist, Sound, [Next]_vars
             PROVE  Sound'
  OBVIOUS
<1>1. ASSUME NEW w \in Workers
      PROVE  RequestSound(workers'[w], moves')
  <2>1. workers[w] \in WorkerStates /\ RequestSound(workers[w], moves)
    BY DEF TypeOK, Sound, RequestsSound
  <2>2. CASE workers'[w] = workers[w]
    BY <2>1, <2>2, SoundKept
  <2>3. CASE workers'[w].op \in {"idle", "save", "bulk", "lookup"}
    BY <2>3 DEF RequestSound
  <2>4. CASE UNCHANGED moves /\ RequestSound(workers'[w], moves)
    BY <2>4
  <2> QED BY <2>2, <2>3, <2>4, StepLearns DEF Sound, Learns
<1> QED BY <1>1, RowsStep DEF Sound, RequestsSound

LEMMA SoundInit == Init => Sound
<1> SUFFICES ASSUME Init PROVE Sound
  OBVIOUS
<1>1. \A m \in MoveIds : moves[m].state = "absent" /\ moves[m].reverses = NoMove
  BY DEF Init, AbsentRow
<1>2. \A w \in Workers : workers[w].op = "idle"
  BY DEF Init, Idle
<1> QED BY <1>1, <1>2 DEF Sound, RowsSound, RequestsSound, RequestSound

LEMMA SoundAlways == Spec => []Sound
<1> QED BY SoundInit, SoundStep, BaseInvariant, PTL DEF Spec

-----------------------------------------------------------------------------
\* Posting what was saved.

LEMMA PostsSavedStep ==
  ASSUME TypeOK, JournalsExist, Sound, [Next]_vars, NEW m \in MoveIds,
         moves[m].state = "draft", moves'[m].state = "posted"
  PROVE  moves'[m] = [moves[m] EXCEPT !.state = "posted", !.version = @ + 1,
                                      !.name = moves'[m].name, !.postedBy = moves'[m].postedBy,
                                      !.previous = moves'[m].previous]
<1>1. CASE Quiet
  <2>1. Posted' = Posted
    BY <1>1, PostedSame DEF Quiet
  <2>2. m \notin Posted /\ m \in Posted'
    BY DEF Posted
  <2> QED BY <2>1, <2>2
<1>2. CASE PostsDraft
  <2>1. PICK x \in MoveIds, actor \in Actors :
          Publish(x, [moves[x] EXCEPT !.version = @ + 1], actor, x, "POST")
    BY <1>2 DEF PostsDraft
  <2>2. moves[x] \in MoveRows
    BY DEF TypeOK
  <2> DEFINE row == [moves[x] EXCEPT !.version = @ + 1]
  <2>3. row \in MoveRows
    BY <2>2, NextVersion
  <2>4. \A o \in MoveIds \ {x} : moves'[o] = moves[o]
    <3> HIDE DEF row
    <3> QED BY <2>1, <2>3, Published DEF row
  <2>5. x = m
    BY <2>4
  <2>6. PICK previous \in LastPosted(row.journal) :
          moves' = [moves EXCEPT ![x] =
            [row EXCEPT !.state = "posted", !.name = NextName(row.journal),
                        !.previous = previous, !.postedBy = actor]]
    BY <2>1 DEF Publish
  <2> DEFINE name == NextName(row.journal)
  <2> HIDE DEF name
  <2>7. moves'[m] = [row EXCEPT !.state = "posted", !.name = name,
                                !.previous = previous, !.postedBy = actor]
    BY <2>5, <2>6 DEF TypeOK, name
  <2>8. /\ moves'[m].name = name /\ moves'[m].previous = previous /\ moves'[m].postedBy = actor
    <3> HIDE DEF row
    <3> QED BY <2>3, <2>7 DEF MoveRows
  <2> QED BY <2>2, <2>5, <2>7, <2>8 DEF MoveRows
<1>3. CASE Reverses \/ Ingests
  <2>1. PICK x \in Unused, row \in MoveRows :
          \E actor, entity, action : Publish(x, row, actor, entity, action)
    BY <1>3 DEF Reverses, Ingests
  <2>2. x \in MoveIds /\ moves[x].state = "absent"
    BY DEF Unused
  <2>3. \A o \in MoveIds \ {x} : moves'[o] = moves[o]
    BY <2>1, <2>2, Published
  <2> QED BY <2>2, <2>3
<1> QED BY <1>1, <1>2, <1>3, StepDoes

\* A posting never undoes a save: the draft is posted with the lines, the period
\* and the creator it has at that moment, although the request validated a copy
\* it had read before (the updated_at test of PostMoveAtomic).
THEOREM PostedAsSaved == Spec => PostsWhatWasSaved
<1>1. TypeOK /\ JournalsExist /\ Sound /\ [Next]_vars =>
        [\A m \in MoveIds :
           (moves[m].state = "draft" /\ moves'[m].state = "posted")
             => moves'[m] = [moves[m] EXCEPT !.state = "posted", !.version = @ + 1,
                                             !.name = moves'[m].name, !.postedBy = moves'[m].postedBy,
                                             !.previous = moves'[m].previous]]_vars
  BY PostsSavedStep
<1> QED BY <1>1, BaseInvariant, SoundAlways, PTL DEF Spec, PostsWhatWasSaved

-----------------------------------------------------------------------------
\* Balance and review.

\* A mirrored entry has the same lines with the sides exchanged, and rounding it
\* again changes nothing.
LEMMA MirrorBalanced ==
  ASSUME NEW e \in Entries, Balanced(e)
  PROVE  Balanced(Mirror(e))
<1>1. LinesOf(Mirror(e)) = LinesOf(e)
  BY DEF LinesOf, Mirror
<1>2. TotalDebit(Mirror(e)) = TotalCredit(e) /\ TotalCredit(Mirror(e)) = TotalDebit(e)
  BY DEF TotalDebit, TotalCredit, Mirror
<1> QED BY <1>1, <1>2 DEF Balanced

LEMMA StoredMirror ==
  ASSUME NEW e \in Entries, Stored(e) = e
  PROVE  Stored(Mirror(e)) = Mirror(e)
  BY DEF Stored, Mirror, Entries, Columns

\* What a step adds to the posted moves.
LEMMA PostedAfter ==
  ASSUME TypeOK, JournalsExist, Sound, [Next]_vars
  PROVE  /\ \A m \in Posted : moves'[m] = moves[m] /\ m \in Posted'
         /\ \A m \in Posted' \ Posted :
              \/ /\ PostsDraft
                 /\ \E actor \in Actors :
                      /\ Balanced(moves[m].lines) /\ MayPost(moves[m], actor)
                      /\ moves'[m].lines = moves[m].lines /\ moves'[m].reverses = NoMove
                      /\ moves'[m].createdBy = moves[m].createdBy /\ moves'[m].postedBy = actor
              \/ /\ Reverses
                 /\ \E o \in Posted :
                      /\ moves'[m].journal = moves[o].journal
                      /\ moves'[m].lines = Mirror(moves[o].lines)
                      /\ moves'[m].reverses = o /\ \A x \in MoveIds : moves[x].reverses # o
              \/ /\ Ingests /\ Balanced(moves'[m].lines) /\ moves'[m].reverses = NoMove
                 /\ \E k \in Keys : events[k] = NoMove /\ events' = [events EXCEPT ![k] = m]
<1>1. \A m \in Posted : moves'[m] = moves[m] /\ m \in Posted'
  BY PostedKept DEF Posted
<1>2. CASE Quiet
  BY <1>1, <1>2, PostedSame DEF Quiet
<1>3. CASE PostsDraft
  <2>1. PICK x \in MoveIds, actor \in Actors :
          /\ moves[x].state = "draft" /\ Balanced(moves[x].lines) /\ MayPost(moves[x], actor)
          /\ Publish(x, [moves[x] EXCEPT !.version = @ + 1], actor, x, "POST")
    BY <1>3 DEF PostsDraft
  <2> DEFINE row == [moves[x] EXCEPT !.version = @ + 1]
  <2>2. /\ row \in MoveRows /\ row.lines = moves[x].lines /\ row.reverses = moves[x].reverses
        /\ row.createdBy = moves[x].createdBy
    BY NextVersion DEF TypeOK
  <2>3. Publish(x, row, actor, x, "POST")
    BY <2>1
  <2>4. moves[x].reverses = NoMove
    BY <2>1 DEF Sound, RowsSound
  <2> HIDE DEF row
  <2>5. Posted' = Posted \cup {x}
    BY <2>1, <2>2, <2>3, PostedInAfter
  <2>6. /\ moves'[x].lines = moves[x].lines /\ moves'[x].reverses = NoMove
        /\ moves'[x].createdBy = moves[x].createdBy /\ moves'[x].postedBy = actor
    BY <2>2, <2>3, <2>4, Published
  <2> QED BY <1>1, <1>3, <2>1, <2>5, <2>6
<1>4. CASE Reverses
  <2>1. PICK x \in Unused, o \in Posted, row \in MoveRows, actor \in Actors :
          /\ row.journal = moves[o].journal /\ row.lines = Stored(Mirror(moves[o].lines))
          /\ row.reverses = o /\ \A y \in MoveIds : moves[y].reverses # o
          /\ Publish(x, row, actor, o, "REVERSE")
    BY <1>4 DEF Reverses
  <2>2. x \in MoveIds /\ moves[x].state # "posted"
    BY DEF Unused
  <2>3. Stored(moves[o].lines) = moves[o].lines /\ moves[o].lines \in Entries
    BY DEF Sound, RowsSound, Posted, TypeOK, MoveRows
  <2>4. row.lines = Mirror(moves[o].lines)
    BY <2>1, <2>3, StoredMirror
  <2>5. Posted' = Posted \cup {x}
    BY <2>1, <2>2, PostedInAfter
  <2>6. /\ moves'[x].journal = row.journal /\ moves'[x].lines = row.lines
        /\ moves'[x].reverses = row.reverses
    BY <2>1, <2>2, Published
  <2> QED BY <1>1, <1>4, <2>1, <2>4, <2>5, <2>6
<1>5. CASE Ingests
  <2>1. PICK x \in Unused, row \in MoveRows, k \in Keys :
          /\ row.reverses = NoMove /\ Balanced(row.lines)
          /\ Publish(x, row, NoActor, x, "INGEST_POST")
          /\ events[k] = NoMove /\ events' = [events EXCEPT ![k] = x]
    BY <1>5 DEF Ingests
  <2>2. x \in MoveIds /\ moves[x].state # "posted"
    BY DEF Unused
  <2>3. Posted' = Posted \cup {x}
    BY <2>1, <2>2, PostedInAfter
  <2>4. moves'[x].lines = row.lines /\ moves'[x].reverses = row.reverses
    BY <2>1, <2>2, Published
  <2> QED BY <1>1, <1>5, <2>1, <2>3, <2>4
<1> QED BY <1>2, <1>3, <1>4, <1>5, StepDoes

LEMMA BalancedStep ==
  TypeOK /\ JournalsExist /\ Sound /\ PostedBalanced /\ [Next]_vars => PostedBalanced'
<1> SUFFICES ASSUME TypeOK, JournalsExist, Sound, PostedBalanced, [Next]_vars,
                    NEW m \in Posted'
             PROVE  Balanced(moves'[m].lines)
  BY DEF PostedBalanced
<1>1. \A o \in Posted : moves[o].lines \in Entries /\ Balanced(moves[o].lines)
  BY DEF PostedBalanced, Posted, TypeOK, MoveRows
<1>2. \A o \in Posted : Balanced(Mirror(moves[o].lines))
  BY <1>1, MirrorBalanced
<1> QED BY <1>1, <1>2, PostedAfter

\* Every posted entry balances as the columns hold it, whatever was posted:
\* reviewed drafts, reversals and ingested events (ValidateBalance, run again on
\* the rows read back; negateLines).
THEOREM PostedEntriesBalance == Spec => []PostedBalanced
<1>1. Init => PostedBalanced
  BY DEF Init, PostedBalanced, Posted, AbsentRow
<1> QED BY <1>1, BalancedStep, BaseInvariant, SoundAlways, PTL DEF Spec

\* A key that has a move keeps it.
LEMMA EventsKept ==
  ASSUME TypeOK, JournalsExist, Sound, [Next]_vars, NEW k \in Keys, events[k] # NoMove
  PROVE  events'[k] = events[k]
  BY StepDoes DEF Quiet, PostsDraft, Reverses, Ingests, TypeOK

LEMMA MakerCheckerStep ==
  TypeOK /\ JournalsExist /\ Sound /\ MakerChecker /\ [Next]_vars => MakerChecker'
<1> SUFFICES ASSUME TypeOK, JournalsExist, Sound, MakerChecker, [Next]_vars,
                    NEW m \in Posted', moves'[m].reverses = NoMove,
                    \A k \in Keys : events'[k] # m,
                    Threshold > 0, TotalDebit(moves'[m].lines) > Threshold
             PROVE  moves'[m].createdBy \notin {NoActor, moves'[m].postedBy}
  BY DEF MakerChecker
<1>1. m \in MoveIds
  BY DEF Posted
<1>2. CASE m \in Posted
  <2>1. moves'[m] = moves[m]
    BY <1>2, PostedAfter
  <2>2. \A k \in Keys : events[k] # m
    BY <1>1, EventsKept, NullAssumption
  <2> QED BY <1>2, <2>1, <2>2 DEF MakerChecker
<1>3. CASE m \notin Posted
  <2>1. CASE \E k \in Keys : events[k] = NoMove /\ events' = [events EXCEPT ![k] = m]
    BY <2>1 DEF TypeOK
  <2>2. CASE \E o \in Posted : moves'[m].reverses = o
    BY <2>2, NullAssumption DEF Posted
  <2>3. ASSUME NEW actor \in Actors, MayPost(moves[m], actor),
               moves'[m].lines = moves[m].lines,
               moves'[m].createdBy = moves[m].createdBy, moves'[m].postedBy = actor
        PROVE  moves'[m].createdBy \notin {NoActor, moves'[m].postedBy}
    BY <2>3 DEF MayPost
  <2> QED BY <1>3, <2>1, <2>2, <2>3, PostedAfter
<1> QED BY <1>2, <1>3

\* No user posts alone a manual move above the threshold, whatever happens to the
\* draft between its review and its posting (PostMoveUseCase, SaveDraftMove).
THEOREM LargeMovesSeenTwice == Spec => []MakerChecker
<1>1. Init => MakerChecker
  BY DEF Init, MakerChecker, Posted, AbsentRow
<1> QED BY <1>1, MakerCheckerStep, BaseInvariant, SoundAlways, PTL DEF Spec

-----------------------------------------------------------------------------
\* Reversals and keys.

LEMMA ReversedStep ==
  TypeOK /\ JournalsExist /\ Sound /\ ReversedOnce /\ [Next]_vars => ReversedOnce'
<1> SUFFICES ASSUME TypeOK, JournalsExist, Sound, ReversedOnce, [Next]_vars,
                    NEW m \in Posted', moves'[m].reverses # NoMove
             PROVE  LET o == moves'[m].reverses
                    IN /\ o \in Posted' /\ moves'[o].journal = moves'[m].journal
                       /\ moves'[m].lines = Mirror(moves'[o].lines)
                       /\ \A x \in Posted' : moves'[x].reverses = o => x = m
  BY DEF ReversedOnce, PostedIn
<1> DEFINE o == moves'[m].reverses
<1>1. /\ \A x \in Posted : moves'[x] = moves[x] /\ x \in Posted'
      /\ \A x \in Posted : x \in MoveIds
  BY PostedAfter DEF Posted
<1>2. CASE m \in Posted
  <2>1. /\ o \in Posted /\ moves[o].journal = moves[m].journal
        /\ moves[m].lines = Mirror(moves[o].lines)
        /\ \A x \in Posted : moves[x].reverses = o => x = m
    BY <1>1, <1>2 DEF ReversedOnce, PostedIn
  <2>2. \A x \in Posted' \ Posted : moves'[x].reverses # o
    <3>1. moves[m].reverses = o /\ m \in MoveIds /\ o # NoMove
      BY <1>1, <1>2
    <3> QED BY <3>1, PostedAfter
  <2> QED BY <1>1, <1>2, <2>1, <2>2 DEF PostedIn
<1>3. CASE m \notin Posted
  <2>1. /\ Reverses /\ o \in Posted
        /\ moves'[m].journal = moves[o].journal /\ moves'[m].lines = Mirror(moves[o].lines)
        /\ \A x \in MoveIds : moves[x].reverses # o
    BY <1>3, PostedAfter
  <2>2. Posted' \ Posted = {m}
    <3>1. PICK x \in Unused, row \in MoveRows :
            \E actor, entity : Publish(x, row, actor, entity, "REVERSE")
      BY <2>1 DEF Reverses
    <3>2. x \in MoveIds /\ moves[x].state # "posted"
      BY DEF Unused
    <3>3. Posted' = Posted \cup {x}
      BY <3>1, <3>2, PostedInAfter
    <3> QED BY <1>3, <3>3
  <2> QED BY <1>1, <2>1, <2>2 DEF PostedIn
<1> QED BY <1>2, <1>3

\* A move is reversed at most once, by its exact mirror and in its own journal
\* (ReverseMoveAtomic).
THEOREM ReversalsAreExact == Spec => []ReversedOnce
<1>1. Init => ReversedOnce
  BY DEF Init, ReversedOnce, Posted, AbsentRow
<1> QED BY <1>1, ReversedStep, BaseInvariant, SoundAlways, PTL DEF Spec

LEMMA KeysStep ==
  TypeOK /\ JournalsExist /\ Sound /\ OneMovePerKey /\ [Next]_vars => OneMovePerKey'
<1> SUFFICES ASSUME TypeOK, JournalsExist, Sound, OneMovePerKey, [Next]_vars, NEW k \in Keys
             PROVE  /\ replies'[k] \subseteq {events'[k]} \cap Posted'
                    /\ events'[k] # NoMove =>
                         events'[k] \in Posted' /\ \A l \in Keys : events'[l] = events'[k] => l = k
  BY DEF OneMovePerKey
<1>1. Posted \subseteq Posted'
  BY PostedAfter
<1>2. \A l \in Keys :
        /\ replies[l] \subseteq {events[l]} \cap Posted
        /\ events[l] # NoMove =>
             events[l] \in Posted /\ \A i \in Keys : events[i] = events[l] => i = l
  BY DEF OneMovePerKey
<1>3. CASE UNCHANGED events /\ replies'[k] \subseteq replies[k] \cup ({events[k]} \ {NoMove})
  BY <1>1, <1>2, <1>3
<1>4. CASE Ingests
  <2>1. PICK m \in Unused, row \in MoveRows, l \in Keys :
          /\ Publish(m, row, NoActor, m, "INGEST_POST")
          /\ events[l] = NoMove /\ events' = [events EXCEPT ![l] = m]
          /\ Reply(l, m) \/ UNCHANGED replies
    BY <1>4 DEF Ingests
  <2>2. m \in MoveIds /\ m \notin Posted
    BY DEF Unused, Posted
  <2>3. m \in Posted'
    BY <2>1, <2>2, Published DEF Posted
  <2>4. events'[l] = m /\ \A i \in Keys \ {l} : events'[i] = events[i]
    BY <2>1 DEF TypeOK
  <2>5. replies[l] = {}
    BY <1>2, <2>1, NullAssumption DEF Posted
  <2>6. replies'[l] \subseteq {m} /\ \A i \in Keys \ {l} : replies'[i] = replies[i]
    BY <2>1, <2>5 DEF Reply, TypeOK
  <2> QED BY <1>1, <1>2, <2>2, <2>3, <2>4, <2>6
<1>5. CASE PostsDraft \/ Reverses
  BY <1>3, <1>5 DEF PostsDraft, Reverses
<1> QED BY <1>3, <1>4, <1>5, StepDoes DEF Quiet

\* A key names one move, and no caller is ever answered another, however
\* deliveries are repeated, raced or lost (IngestSubledgerEventUseCase).
THEOREM KeysNameOneMove == Spec => []OneMovePerKey
<1>1. Init => OneMovePerKey
  BY DEF Init, OneMovePerKey
<1> QED BY <1>1, KeysStep, BaseInvariant, SoundAlways, PTL DEF Spec

-----------------------------------------------------------------------------
\* The audit log.

Hits(log, m, actions) == {i \in DOMAIN log : log[i].entity = m /\ log[i].action \in actions}

\* One more entry counts once, if it is about the move and the actions.
LEMMA OneMoreHit ==
  ASSUME NEW log \in Seq(AuditRows), NEW entry \in AuditRows, NEW m, NEW actions
  PROVE  /\ Cardinality(Hits(log, m, actions)) \in Nat
         /\ Cardinality(Hits(Append(log, entry), m, actions))
              = IF entry.entity = m /\ entry.action \in actions
                THEN Cardinality(Hits(log, m, actions)) + 1
                ELSE Cardinality(Hits(log, m, actions))
<1> DEFINE n == Len(log)
           longer == Append(log, entry)
           hits == Hits(log, m, actions)
<1>1. n \in Nat /\ DOMAIN log = 1 .. n
  BY LenProperties
<1>2. /\ longer \in Seq(AuditRows) /\ Len(longer) = n + 1
      /\ \A i \in 1 .. n : longer[i] = log[i]
      /\ longer[n + 1] = entry
  BY AppendProperties
<1>3. DOMAIN longer = 1 .. n + 1
  BY <1>2, LenProperties
<1>4. IsFiniteSet(hits)
  <2>1. IsFiniteSet(1 .. n)
    BY <1>1, FS_Interval
  <2>2. hits \subseteq 1 .. n
    BY <1>1 DEF Hits
  <2> QED BY <2>1, <2>2, FS_Subset
<1>5. n + 1 \notin hits
  BY <1>1 DEF Hits
<1>6. Hits(longer, m, actions) =
        IF entry.entity = m /\ entry.action \in actions THEN hits \cup {n + 1} ELSE hits
  <2> HIDE DEF longer
  <2>1. 1 .. n + 1 = (1 .. n) \cup {n + 1} /\ n + 1 \notin 1 .. n
    BY <1>1
  <2>2. \A i : i \in Hits(longer, m, actions)
                 <=> \/ i \in hits
                     \/ i = n + 1 /\ entry.entity = m /\ entry.action \in actions
    <3> HIDE DEF n
    <3> QED BY <1>1, <1>2, <1>3, <2>1 DEF Hits
  <2> HIDE DEF hits, n
  <2> QED BY <2>2
<1> HIDE DEF hits, n
<1>7. Cardinality(hits) \in Nat /\ Cardinality(hits \cup {n + 1}) = Cardinality(hits) + 1
  BY <1>4, <1>5, FS_CardinalityType, FS_AddElement
<1> QED BY <1>6, <1>7 DEF hits

LEMMA EnteredAfter ==
  ASSUME TypeOK, NEW entry \in AuditRows, audit' = Append(audit, entry), NEW m, NEW actions
  PROVE  /\ Entered(m, actions) \in Nat
         /\ Entered(m, actions)' = IF entry.entity = m /\ entry.action \in actions
                                   THEN Entered(m, actions) + 1
                                   ELSE Entered(m, actions)
<1>1. audit \in Seq(AuditRows)
  BY DEF TypeOK
<1>2. /\ Entered(m, actions) = Cardinality(Hits(audit, m, actions))
      /\ Entered(m, actions)' = Cardinality(Hits(audit', m, actions))
  BY DEF Entered, Hits
<1> QED BY <1>1, <1>2, OneMoreHit

Postings == {"POST", "INGEST_POST"}

Reversals(m) == {x \in Posted : moves[x].reverses = m}

LEMMA AuditStep ==
  TypeOK /\ JournalsExist /\ Sound /\ AuditComplete /\ [Next]_vars => AuditComplete'
<1> SUFFICES ASSUME TypeOK, JournalsExist, Sound, AuditComplete, [Next]_vars, NEW m \in MoveIds
             PROVE  /\ Entered(m, Postings)'
                         = IF m \in Posted' /\ moves'[m].reverses = NoMove THEN 1 ELSE 0
                    /\ Entered(m, {"REVERSE"})' = Cardinality(Reversals(m)')
  BY DEF AuditComplete, Postings, Reversals
<1>1. /\ Entered(m, Postings) = IF m \in Posted /\ moves[m].reverses = NoMove THEN 1 ELSE 0
      /\ Entered(m, {"REVERSE"}) = Cardinality(Reversals(m))
  BY DEF AuditComplete, Postings, Reversals
<1>2. m # NoMove
  BY NullAssumption
<1>3. CASE Quiet
  <2>1. Posted' = Posted /\ \A x \in Posted : moves'[x] = moves[x]
    BY <1>3, PostedSame DEF Quiet
  <2>2. audit' = audit
    BY <1>3 DEF Quiet, Bystander, Redraft
  <2>3. Reversals(m)' = Reversals(m)
    BY <2>1 DEF Reversals
  <2>4. Entered(m, Postings)' = Entered(m, Postings)
        /\ Entered(m, {"REVERSE"})' = Entered(m, {"REVERSE"})
    BY <2>2 DEF Entered
  <2> QED BY <1>1, <2>1, <2>3, <2>4
<1>4. ASSUME NEW x \in MoveIds, NEW row \in MoveRows, NEW actor \in Actors \cup {NoActor},
             NEW action \in Postings,
             moves[x].state # "posted", row.reverses = NoMove, Publish(x, row, actor, x, action)
      PROVE  /\ Entered(m, Postings)'
                  = IF m \in Posted' /\ moves'[m].reverses = NoMove THEN 1 ELSE 0
             /\ Entered(m, {"REVERSE"})' = Cardinality(Reversals(m)')
  <2> DEFINE entry == [entity |-> x, action |-> action, actor |-> actor]
  <2>1. audit' = Append(audit, entry) /\ entry \in AuditRows
    BY <1>4 DEF Publish, AuditRows, Postings
  <2>2. entry.entity = x /\ entry.action \in Postings /\ entry.action \notin {"REVERSE"}
    BY DEF Postings
  <2> HIDE DEF entry
  <2>3. /\ x \notin Posted /\ Posted' = Posted \cup {x}
        /\ \A o \in Posted : moves'[o] = moves[o]
    BY <1>4, PostedInAfter
  <2>4. moves'[x].reverses = NoMove
    BY <1>4, Published
  <2>5. Reversals(m)' = Reversals(m)
    BY <1>2, <2>3, <2>4 DEF Reversals
  <2>6. Entered(m, {"REVERSE"})' = Entered(m, {"REVERSE"})
    BY <2>1, <2>2, EnteredAfter
  <2>7. Entered(m, Postings)' = IF m = x THEN Entered(m, Postings) + 1 ELSE Entered(m, Postings)
    BY <2>1, <2>2, EnteredAfter
  <2> QED BY <1>1, <2>3, <2>4, <2>5, <2>6, <2>7
<1>5. CASE PostsDraft
  <2>1. PICK x \in MoveIds, actor \in Actors :
          /\ moves[x].state = "draft"
          /\ Publish(x, [moves[x] EXCEPT !.version = @ + 1], actor, x, "POST")
    BY <1>5 DEF PostsDraft
  <2> DEFINE row == [moves[x] EXCEPT !.version = @ + 1]
  <2>2. row \in MoveRows /\ row.reverses = moves[x].reverses
    BY NextVersion DEF TypeOK
  <2>3. moves[x].reverses = NoMove /\ Publish(x, row, actor, x, "POST")
    BY <2>1 DEF Sound, RowsSound
  <2> HIDE DEF row
  <2> QED BY <1>4, <2>1, <2>2, <2>3 DEF Postings
<1>6. CASE Ingests
  <2>1. PICK x \in Unused, row \in MoveRows :
          row.reverses = NoMove /\ Publish(x, row, NoActor, x, "INGEST_POST")
    BY <1>6 DEF Ingests
  <2>2. x \in MoveIds /\ moves[x].state # "posted"
    BY DEF Unused
  <2> QED BY <1>4, <2>1, <2>2 DEF Postings
<1>7. CASE Reverses
  <2>1. PICK x \in Unused, o \in Posted, row \in MoveRows, actor \in Actors :
          /\ row.reverses = o /\ \A y \in MoveIds : moves[y].reverses # o
          /\ Publish(x, row, actor, o, "REVERSE")
    BY <1>7 DEF Reverses
  <2>2. x \in MoveIds /\ moves[x].state # "posted" /\ o \in MoveIds /\ o # NoMove
    BY NullAssumption DEF Unused, Posted
  <2> DEFINE entry == [entity |-> o, action |-> "REVERSE", actor |-> actor]
  <2>3. audit' = Append(audit, entry) /\ entry \in AuditRows
    BY <2>1, <2>2 DEF Publish, AuditRows
  <2>4. entry.entity = o /\ entry.action = "REVERSE" /\ entry.action \notin Postings
    BY DEF Postings
  <2> HIDE DEF entry
  <2>5. /\ x \notin Posted /\ Posted' = Posted \cup {x}
        /\ \A y \in Posted : moves'[y] = moves[y]
    BY <2>1, <2>2, PostedInAfter
  <2>6. moves'[x].reverses = o
    BY <2>1, <2>2, Published
  <2>7. Entered(m, Postings)' = Entered(m, Postings)
    BY <2>3, <2>4, EnteredAfter
  <2>8. Entered(m, {"REVERSE"})'
          = IF m = o THEN Entered(m, {"REVERSE"}) + 1 ELSE Entered(m, {"REVERSE"})
    BY <2>3, <2>4, EnteredAfter
  <2>9. CASE m = o
    <3>1. Reversals(m) = {} /\ Reversals(m)' = {x}
      BY <2>1, <2>5, <2>6, <2>9 DEF Reversals, Posted
    <3>2. Cardinality({}) = 0 /\ Cardinality({x}) = 1
      BY FS_EmptySet, FS_Singleton
    <3>3. m # x
      BY <2>5, <2>9
    <3> QED BY <1>1, <2>5, <2>7, <2>8, <2>9, <3>1, <3>2, <3>3
  <2>10. CASE m # o
    <3>1. Reversals(m)' = Reversals(m)
      BY <2>5, <2>6, <2>10 DEF Reversals
    <3> QED BY <1>1, <2>2, <2>5, <2>6, <2>7, <2>8, <2>10, <3>1
  <2> QED BY <2>9, <2>10
<1> QED BY <1>3, <1>5, <1>6, <1>7, StepDoes

LEMMA AuditInit == Init => AuditComplete
<1> SUFFICES ASSUME Init, NEW m \in MoveIds, NEW actions
             PROVE  /\ Entered(m, actions) = 0 /\ Posted = {}
                    /\ Cardinality({x \in Posted : moves[x].reverses = m}) = 0
  BY DEF AuditComplete
<1>1. Posted = {}
  BY DEF Init, Posted, AbsentRow
<1>2. audit = <<>>
  BY DEF Init
<1>3. {i \in DOMAIN audit : audit[i].entity = m /\ audit[i].action \in actions} = {}
  BY <1>2
<1> QED BY <1>1, <1>3, FS_EmptySet DEF Entered

\* The audit log tells one posting of every posted move and one reversal of
\* every reversed one, and nothing of what was rolled back (insertAuditLog).
THEOREM AuditTellsAll == Spec => []AuditComplete
<1> QED BY AuditInit, AuditStep, BaseInvariant, SoundAlways, PTL DEF Spec
=============================================================================
