------------------------------ MODULE LockProofs ------------------------------
(***************************************************************************)
(* With the row locks of PostgreSQL the posting transactions happen as     *)
(* Ledger says, all at once: LockSpec implements Ledger's Spec, for any    *)
(* number of requests, moves, journals and keys, and only requests that    *)
(* ingest events into one journal can block each other for good.           *)
(*                                                                         *)
(* The invariant, LocksSound, says of every transaction what it has behind *)
(* it: the locks it took, and that what it then read or checked is still   *)
(* so.  The conflict table makes it stable: whatever would change it needs *)
(* a lock that conflicts with one that is held.                            *)
(***************************************************************************)
EXTENDS PostingLocks, LedgerProofs

-----------------------------------------------------------------------------
\* Where a transaction is.

Common == {"period", "journal", "hash", "name", "audit", "log", "commit"}

Points(kind) == Common \cup (IF kind = "ingest" THEN {"insert", "key"} ELSE {"move"})

\* The statements a transaction has behind it.
PastPeriod(w) ==
  \/ tx[w].at \in {"insert", "journal", "hash", "name", "audit", "log", "key", "commit"}
  \/ At(w, "move") /\ Kind(w) = "post"
PastMove(w) ==
  /\ Kind(w) # "ingest"
  /\ \/ tx[w].at \in {"journal", "hash", "name", "audit", "log", "commit"}
     \/ At(w, "period") /\ Kind(w) = "reverse"
PastInsert(w) ==
  Kind(w) = "ingest" /\ tx[w].at \in {"journal", "hash", "name", "audit", "log", "key", "commit"}
PastJournal(w) == tx[w].at \in {"hash", "name", "audit", "log", "key", "commit"}
PastHash(w) == tx[w].at \in {"name", "audit", "log", "key", "commit"}
PastName(w) == tx[w].at \in {"audit", "log", "key", "commit"}
PastAudit(w) == tx[w].at \in {"log", "key", "commit"}
PastLog(w) == tx[w].at \in {"key", "commit"}
PastKey(w) == Kind(w) = "ingest" /\ At(w, "commit")

-----------------------------------------------------------------------------
\* What a transaction has read or checked stays true, because of the lock it took.

InOrder(w) ==
  IF Running(w)
  THEN /\ Kind(w) \in {"post", "reverse", "ingest"} /\ tx[w].at \in Points(Kind(w))
       /\ Kind(w) # "reverse" => ValidateBalance(workers[w].row)
  ELSE tx[w] = NoTx

PeriodHeld(w) ==
  PastPeriod(w) =>
    Lock("period", PeriodOf(w), "share") \in held[w] /\ periods[PeriodOf(w)] = "open"

MoveHeld(w) ==
  PastMove(w) =>
    /\ Lock("move", MoveOf(w), "update") \in held[w]
    /\ Kind(w) = "post" => SameRow(workers[w].row, MoveOf(w))
    /\ Kind(w) = "reverse" =>
         moves[MoveOf(w)].state = "posted" /\ \A m \in MoveIds : moves[m].reverses # MoveOf(w)

NumberHeld(w) ==
  PastJournal(w) =>
    \E j \in Journals : /\ j = JournalOf(w) /\ Lock("journal", j, "update") \in held[w]
                        /\ tx[w].name = NextName(j)

LinkRead(w) ==
  PastHash(w) =>
    /\ \E j \in Journals : j = JournalOf(w) /\ tx[w].previous \in LastPosted(j)
    /\ Kind(w) = "reverse" => Cardinality(LinesOf(moves[MoveOf(w)].lines)) >= 2

NameHeld(w) ==
  PastName(w) =>
    /\ Lock("name", tx[w].name, "update") \in held[w]
    /\ \A m \in Posted : moves[m].name # tx[w].name

AuditHeld(w) == PastAudit(w) => Lock("audit", "chain", "update") \in held[w]

LogWritten(w) ==
  IF PastLog(w)
  THEN tx[w].log.previous = Latest(LogIds) /\ \A i \in LogIds : i < tx[w].log.id
  ELSE tx[w].log = NoLog

KeyHeld(w) ==
  PastKey(w) =>
    Lock("key", workers[w].key, "update") \in held[w] /\ events[workers[w].key] = NoMove

\* A transaction holds the locks of the statements behind it, and no others.
HeldOnly(w) ==
  \A l \in held[w] :
    \/ l.table = "period" /\ l.mode \in {"share", "key_share"} /\ PastPeriod(w)
    \/ l.table = "move" /\ PastMove(w)
    \/ l.table = "journal" /\ l.row = JournalOf(w) /\ PastJournal(w)
    \/ l.table = "journal" /\ l.row = JournalOf(w) /\ PastInsert(w) /\ l.mode = "key_share"
    \/ l.table = "name" /\ PastName(w)
    \/ l.table = "audit" /\ PastAudit(w)
    \/ l.table = "key" /\ PastKey(w)

TxSound(w) ==
  /\ InOrder(w) /\ HeldOnly(w)
  /\ PeriodHeld(w) /\ MoveHeld(w) /\ NumberHeld(w) /\ LinkRead(w)
  /\ NameHeld(w) /\ AuditHeld(w) /\ LogWritten(w) /\ KeyHeld(w)

Logs == [id : Nat, previous : Nat]

Txs == [at : Common \cup {"insert", "move", "key", "none"}, name : Names,
        previous : MoveIds \cup {NoMove}, log : Logs]

LockTypeOK ==
  /\ tx \in [Workers -> Txs]
  /\ DOMAIN held = Workers /\ held = [w \in Workers |-> held[w]]
  /\ logs \subseteq Logs

\* Two transactions never hold conflicting locks.
Exclusive == \A w \in Workers : \A o \in Workers \ {w} : \A l \in held[w], k \in held[o] : ~ Clash(l, k)

LogsEnd == \E i \in LogIds : \A j \in LogIds : j <= i

LocksSound == LockTypeOK /\ Exclusive /\ LogsEnd /\ \A w \in Workers : TxSound(w)

-----------------------------------------------------------------------------
\* The order of the statements.

LEMMA Following ==
  ASSUME NEW s, NEW x, NEW i \in DOMAIN s, s[i] = x, \A j \in DOMAIN s : s[j] = x => j = i
  PROVE  s[1 + CHOOSE j \in DOMAIN s : s[j] = x] = s[1 + i]
<1>1. (CHOOSE j \in DOMAIN s : s[j] = x) = i
  OBVIOUS
<1> QED BY <1>1

LEMMA PostOrder ==
  ASSUME NEW w, Kind(w) = "post"
  PROVE  /\ At(w, "period") => After(w) = "move"
         /\ At(w, "move") => After(w) = "journal"
         /\ At(w, "journal") => After(w) = "hash"
         /\ At(w, "hash") => After(w) = "name"
         /\ At(w, "name") => After(w) = "audit"
         /\ At(w, "audit") => After(w) = "log"
         /\ At(w, "log") => After(w) = "commit"
<1> DEFINE s == Statements("post")
<1>1. s = <<"period", "move", "journal", "hash", "name", "audit", "log", "commit">>
  BY DEF Statements
<1> HIDE DEF s
<1>2. After(w) = s[1 + CHOOSE j \in DOMAIN s : s[j] = tx[w].at]
  BY DEF After, s
<1>3. DOMAIN s = 1 .. 8 /\ 1 .. 8 = {1, 2, 3, 4, 5, 6, 7, 8}
  BY <1>1
<1>4. /\ s[1] = "period" /\ s[2] = "move" /\ s[3] = "journal" /\ s[4] = "hash"
      /\ s[5] = "name" /\ s[6] = "audit" /\ s[7] = "log" /\ s[8] = "commit"
  BY <1>1
<1>5. \A i \in DOMAIN s : \A j \in DOMAIN s : s[i] = s[j] => i = j
  BY <1>3, <1>4
<1>6. ASSUME NEW i \in DOMAIN s, tx[w].at = s[i]
      PROVE  After(w) = s[1 + i]
  BY <1>2, <1>5, <1>6, Following
<1> QED BY <1>3, <1>4, <1>6 DEF At

LEMMA ReverseOrder ==
  ASSUME NEW w, Kind(w) = "reverse"
  PROVE  /\ At(w, "move") => After(w) = "period"
         /\ At(w, "period") => After(w) = "journal"
         /\ At(w, "journal") => After(w) = "hash"
         /\ At(w, "hash") => After(w) = "name"
         /\ At(w, "name") => After(w) = "audit"
         /\ At(w, "audit") => After(w) = "log"
         /\ At(w, "log") => After(w) = "commit"
<1> DEFINE s == Statements("reverse")
<1>1. s = <<"move", "period", "journal", "hash", "name", "audit", "log", "commit">>
  BY DEF Statements
<1> HIDE DEF s
<1>2. After(w) = s[1 + CHOOSE j \in DOMAIN s : s[j] = tx[w].at]
  BY DEF After, s
<1>3. DOMAIN s = 1 .. 8 /\ 1 .. 8 = {1, 2, 3, 4, 5, 6, 7, 8}
  BY <1>1
<1>4. /\ s[1] = "move" /\ s[2] = "period" /\ s[3] = "journal" /\ s[4] = "hash"
      /\ s[5] = "name" /\ s[6] = "audit" /\ s[7] = "log" /\ s[8] = "commit"
  BY <1>1
<1>5. \A i \in DOMAIN s : \A j \in DOMAIN s : s[i] = s[j] => i = j
  BY <1>3, <1>4
<1>6. ASSUME NEW i \in DOMAIN s, tx[w].at = s[i]
      PROVE  After(w) = s[1 + i]
  BY <1>2, <1>5, <1>6, Following
<1> QED BY <1>3, <1>4, <1>6 DEF At

LEMMA IngestOrder ==
  ASSUME NEW w, Kind(w) = "ingest"
  PROVE  /\ At(w, "period") => After(w) = "insert"
         /\ At(w, "insert") => After(w) = "journal"
         /\ At(w, "journal") => After(w) = "hash"
         /\ At(w, "hash") => After(w) = "name"
         /\ At(w, "name") => After(w) = "audit"
         /\ At(w, "audit") => After(w) = "log"
         /\ At(w, "log") => After(w) = "key"
         /\ At(w, "key") => After(w) = "commit"
<1> DEFINE s == Statements("ingest")
<1>1. s = <<"period", "insert", "journal", "hash", "name", "audit", "log", "key", "commit">>
  BY DEF Statements
<1> HIDE DEF s
<1>2. After(w) = s[1 + CHOOSE j \in DOMAIN s : s[j] = tx[w].at]
  BY DEF After, s
<1>3. DOMAIN s = 1 .. 9 /\ 1 .. 9 = {1, 2, 3, 4, 5, 6, 7, 8, 9}
  BY <1>1
<1>4. /\ s[1] = "period" /\ s[2] = "insert" /\ s[3] = "journal" /\ s[4] = "hash"
      /\ s[5] = "name" /\ s[6] = "audit" /\ s[7] = "log" /\ s[8] = "key"
      /\ s[9] = "commit"
  BY <1>1
<1>5. \A i \in DOMAIN s : \A j \in DOMAIN s : s[i] = s[j] => i = j
  BY <1>3, <1>4
<1>6. ASSUME NEW i \in DOMAIN s, tx[w].at = s[i]
      PROVE  After(w) = s[1 + i]
  BY <1>2, <1>5, <1>6, Following
<1> QED BY <1>3, <1>4, <1>6 DEF At

\* Executing a statement puts that one statement behind.
LEMMA Advance ==
  ASSUME NEW w \in Workers, InOrder(w), Running(w), ~ At(w, "commit"),
         workers'[w] = workers[w], tx'[w].at = After(w)
  PROVE  /\ After(w) \in Points(Kind(w)) /\ Kind(w)' = Kind(w)
         /\ PastPeriod(w)' <=> PastPeriod(w) \/ At(w, "period")
         /\ PastMove(w)' <=> PastMove(w) \/ At(w, "move")
         /\ PastInsert(w)' <=> PastInsert(w) \/ At(w, "insert")
         /\ PastJournal(w)' <=> PastJournal(w) \/ At(w, "journal")
         /\ PastHash(w)' <=> PastHash(w) \/ At(w, "hash")
         /\ PastName(w)' <=> PastName(w) \/ At(w, "name")
         /\ PastAudit(w)' <=> PastAudit(w) \/ At(w, "audit")
         /\ PastLog(w)' <=> PastLog(w) \/ At(w, "log")
         /\ PastKey(w)' <=> PastKey(w) \/ At(w, "key")
<1> DEFINE at == tx[w].at
           next == After(w)
<1>1. Kind(w)' = Kind(w) /\ tx'[w].at = next
  BY DEF Kind
<1>2. Kind(w) \in {"post", "reverse", "ingest"} /\ at \in Points(Kind(w)) \ {"commit"}
  BY DEF InOrder, At
<1>3. CASE Kind(w) = "post"
  <2>1. at \in {"period", "move", "journal", "hash", "name", "audit", "log"}
    BY <1>2, <1>3 DEF Points, Common
  <2>2. <<at, next>> \in {<<"period", "move">>, <<"move", "journal">>, <<"journal", "hash">>,
                          <<"hash", "name">>, <<"name", "audit">>, <<"audit", "log">>,
                          <<"log", "commit">>}
    BY <1>3, <2>1, PostOrder DEF At
  <2> HIDE DEF next
  <2> QED BY <1>1, <1>3, <2>2 DEF Points, Common, At, PastPeriod, PastMove, PastInsert, PastJournal,
             PastHash, PastName, PastAudit, PastLog, PastKey, next
<1>4. CASE Kind(w) = "reverse"
  <2>1. at \in {"period", "move", "journal", "hash", "name", "audit", "log"}
    BY <1>2, <1>4 DEF Points, Common
  <2>2. <<at, next>> \in {<<"move", "period">>, <<"period", "journal">>, <<"journal", "hash">>,
                          <<"hash", "name">>, <<"name", "audit">>, <<"audit", "log">>,
                          <<"log", "commit">>}
    BY <1>4, <2>1, ReverseOrder DEF At
  <2> HIDE DEF next
  <2> QED BY <1>1, <1>4, <2>2 DEF Points, Common, At, PastPeriod, PastMove, PastInsert, PastJournal,
             PastHash, PastName, PastAudit, PastLog, PastKey, next
<1>5. CASE Kind(w) = "ingest"
  <2>1. at \in {"period", "insert", "journal", "hash", "name", "audit", "log", "key"}
    BY <1>2, <1>5 DEF Points, Common
  <2>2. <<at, next>> \in {<<"period", "insert">>, <<"insert", "journal">>, <<"journal", "hash">>,
                          <<"hash", "name">>, <<"name", "audit">>, <<"audit", "log">>,
                          <<"log", "key">>, <<"key", "commit">>}
    BY <1>5, <2>1, IngestOrder DEF At
  <2> HIDE DEF next
  <2> QED BY <1>1, <1>5, <2>2 DEF Points, Common, At, PastPeriod, PastMove, PastInsert, PastJournal,
             PastHash, PastName, PastAudit, PastLog, PastKey, next
<1> QED BY <1>2, <1>3, <1>4, <1>5

-----------------------------------------------------------------------------
\* What a transaction knows is disturbed only by a step that changes it.
Undisturbed(w) ==
  /\ tx'[w] = tx[w] /\ held'[w] = held[w] /\ workers'[w] = workers[w]
  /\ PastPeriod(w) => periods'[PeriodOf(w)] = periods[PeriodOf(w)]
  /\ PastMove(w) => moves'[MoveOf(w)] = moves[MoveOf(w)]
  /\ PastMove(w) /\ Kind(w) = "reverse" =>
       \A m \in MoveIds : moves'[m].reverses = MoveOf(w) => moves[m].reverses = MoveOf(w)
  /\ PastJournal(w) =>
       \A j \in Journals : j = JournalOf(w) =>
         NextName(j)' = NextName(j) /\ LastPosted(j)' = LastPosted(j)
  /\ PastName(w) =>
       \A m \in Posted' : moves'[m].name = tx[w].name => m \in Posted /\ moves[m].name = tx[w].name
  /\ PastLog(w) => LogIds' = LogIds
  /\ PastKey(w) => events'[workers[w].key] = events[workers[w].key]

LEMMA Frame ==
  ASSUME NEW w \in Workers, TxSound(w), Undisturbed(w)
  PROVE  TxSound(w)'
<1>1. tx'[w] = tx[w] /\ held'[w] = held[w] /\ workers'[w] = workers[w]
  BY DEF Undisturbed
<1>2. /\ Kind(w)' = Kind(w) /\ Running(w)' = Running(w)
      /\ PastPeriod(w)' = PastPeriod(w) /\ PastMove(w)' = PastMove(w)
      /\ PastInsert(w)' = PastInsert(w) /\ PastJournal(w)' = PastJournal(w)
      /\ PastHash(w)' = PastHash(w) /\ PastName(w)' = PastName(w)
      /\ PastAudit(w)' = PastAudit(w) /\ PastLog(w)' = PastLog(w) /\ PastKey(w)' = PastKey(w)
  BY <1>1 DEF Kind, Running, At, PastPeriod, PastMove, PastInsert, PastJournal, PastHash, PastName,
              PastAudit, PastLog, PastKey
<1>3. /\ PeriodOf(w)' = PeriodOf(w) /\ MoveOf(w)' = MoveOf(w) /\ JournalOf(w)' = JournalOf(w)
  BY <1>1 DEF PeriodOf, MoveOf, JournalOf, Kind
<1>4. InOrder(w)'
  BY <1>1, <1>2 DEF TxSound, InOrder, ValidateBalance
<1>5. HeldOnly(w)'
  BY <1>1, <1>2, <1>3 DEF TxSound, HeldOnly
<1>6. PeriodHeld(w)'
  BY <1>1, <1>2, <1>3 DEF TxSound, PeriodHeld, Undisturbed
<1>7. MoveHeld(w)'
  <2>1. MoveHeld(w)
    BY DEF TxSound
  <2>2. PastMove(w) => moves'[MoveOf(w)] = moves[MoveOf(w)]
    BY DEF Undisturbed
  <2>3. PastMove(w) /\ Kind(w) = "reverse" =>
          \A m \in MoveIds : moves'[m].reverses = MoveOf(w) => moves[m].reverses = MoveOf(w)
    BY DEF Undisturbed
  <2> QED BY <1>1, <1>2, <1>3, <2>1, <2>2, <2>3 DEF MoveHeld, SameRow
<1>8. NumberHeld(w)'
  BY <1>1, <1>2, <1>3 DEF TxSound, NumberHeld, Undisturbed
<1>9. LinkRead(w)'
  <2>1. LinkRead(w) /\ InOrder(w)
    BY DEF TxSound
  <2>2. PastHash(w) => PastJournal(w) /\ (Kind(w) = "reverse" => PastMove(w))
    BY <2>1 DEF InOrder, Running, At, PastHash, PastJournal, PastMove, Points, Common
  <2>3. PastMove(w) => moves'[MoveOf(w)] = moves[MoveOf(w)]
    BY DEF Undisturbed
  <2>4. PastJournal(w) => \A j \in Journals : j = JournalOf(w) => LastPosted(j)' = LastPosted(j)
    BY DEF Undisturbed
  <2> QED BY <1>1, <1>2, <1>3, <2>1, <2>2, <2>3, <2>4 DEF LinkRead
<1>10. NameHeld(w)'
  BY <1>1, <1>2 DEF TxSound, NameHeld, Undisturbed
<1>11. AuditHeld(w)'
  BY <1>1, <1>2 DEF TxSound, AuditHeld
<1>12. LogWritten(w)'
  BY <1>1, <1>2 DEF TxSound, LogWritten, Undisturbed
<1>13. KeyHeld(w)'
  BY <1>1, <1>2 DEF TxSound, KeyHeld, Undisturbed
<1> QED BY <1>4, <1>5, <1>6, <1>7, <1>8, <1>9, <1>10, <1>11, <1>12, <1>13 DEF TxSound

-----------------------------------------------------------------------------
\* Executing a statement.

LEMMA LockFields ==
  \A t, r, m : Lock(t, r, m).table = t /\ Lock(t, r, m).row = r /\ Lock(t, r, m).mode = m
  BY DEF Lock

LEMMA LatestIsLast ==
  ASSUME NEW ids, \E i \in ids : \A j \in ids : j <= i
  PROVE  Latest(ids) \in ids /\ \A j \in ids : j <= Latest(ids)
  BY DEF Latest

LEMMA RunningShapes ==
  ASSUME TypeOK, NEW w \in Workers, InOrder(w), Running(w)
  PROVE  /\ JournalOf(w) \in Journals /\ PeriodOf(w) \in Periods
         /\ Kind(w) # "ingest" => MoveOf(w) \in MoveIds
         /\ Kind(w) = "post" => workers[w] \in PostWorkers /\ MoveOf(w) = Head(workers[w].queue)
         /\ Kind(w) = "reverse" => workers[w] \in ReverseWorkers /\ MoveOf(w) = workers[w].original
         /\ Kind(w) = "ingest" => workers[w] \in IngestWorkers /\ workers[w].key \in Keys
<1>1. /\ Kind(w) = "post" => workers[w] \in PostWorkers
      /\ Kind(w) = "reverse" => workers[w] \in ReverseWorkers
      /\ Kind(w) = "ingest" => workers[w] \in IngestWorkers
      /\ Kind(w) \in {"post", "reverse", "ingest"}
  BY WorkerShapes DEF InOrder, Kind, Doing
<1>2. CASE Kind(w) = "post"
  <2>1. workers[w].row \in MoveRows /\ workers[w].queue \in Queues
    BY <1>1, <1>2 DEF PostWorkers
  <2>2. Head(workers[w].queue) \in MoveIds
    BY <2>1, QueueParts
  <2> QED BY <1>1, <1>2, <2>1, <2>2 DEF JournalOf, PeriodOf, MoveOf, MoveRows
<1>3. CASE Kind(w) = "reverse"
  BY <1>1, <1>3 DEF JournalOf, PeriodOf, MoveOf, ReverseWorkers
<1>4. CASE Kind(w) = "ingest"
  <2>1. workers[w].row \in MoveRows /\ workers[w].key \in Keys
    BY <1>1, <1>4 DEF IngestWorkers
  <2> QED BY <1>1, <1>4, <2>1 DEF JournalOf, PeriodOf, MoveOf, MoveRows
<1> QED BY <1>1, <1>2, <1>3, <1>4

\* What a statement adds to what the transaction has read.
Reads(w, st, result) ==
  /\ result \in Txs
  /\ result.name = IF st = "journal" THEN NextName(JournalOf(w)) ELSE tx[w].name
  /\ IF st = "hash" THEN result.previous \in LastPosted(JournalOf(w))
     ELSE result.previous = tx[w].previous
  /\ IF st = "log" THEN result.log.previous = Latest(LogIds) /\ \A i \in LogIds : i < result.log.id
     ELSE result.log = tx[w].log

Executes(w) ==
  \E st \in {"period", "insert", "move", "journal", "hash", "name", "audit", "log", "key"} :
    \E result : Step(w, st, result) /\ Reads(w, st, result)

LEMMA LogIdsNat ==
  ASSUME LockTypeOK
  PROVE  LogIds \subseteq Nat /\ 0 \in LogIds
  BY DEF LockTypeOK, LogIds, Logs

LEMMA StatementsExecute ==
  ASSUME TypeOK, LocksSound, NEW w \in Workers,
         \/ LockPeriod(w) \/ InsertMove(w) \/ LockMove(w) \/ DrawNumber(w) \/ ReadLastHash(w)
         \/ TakeName(w) \/ LockAudit(w) \/ WriteLog(w) \/ InsertKey(w)
  PROVE  Executes(w)
<1>1. tx[w] \in Txs /\ InOrder(w)
  BY DEF LocksSound, LockTypeOK, TxSound
<1>2. ASSUME NEW st \in {"period", "insert", "move", "name", "audit", "key"}, Step(w, st, tx[w])
      PROVE  Executes(w)
  <2>1. Reads(w, st, tx[w])
    BY <1>1 DEF Reads
  <2> QED BY <1>2, <2>1 DEF Executes
<1>3. CASE DrawNumber(w)
  <2> DEFINE result == [tx[w] EXCEPT !.name = NextName(JournalOf(w))]
  <2>1. JournalOf(w) \in Journals
    BY <1>1, <1>3, RunningShapes DEF DrawNumber, Step, At, Running
  <2>2. NextName(JournalOf(w)) \in Names
    BY <2>1 DEF NextName, Names, TypeOK
  <2>3. Reads(w, "journal", result)
    BY <1>1, <2>2 DEF Reads, Txs
  <2>4. Step(w, "journal", result)
    BY <1>3 DEF DrawNumber
  <2> QED BY <2>3, <2>4 DEF Executes
<1>4. CASE ReadLastHash(w)
  <2>1. PICK m \in LastPosted(JournalOf(w)) : Step(w, "hash", [tx[w] EXCEPT !.previous = m])
    BY <1>4 DEF ReadLastHash
  <2>2. m \in MoveIds \cup {NoMove}
    BY DEF LastPosted, PostedIn, Posted
  <2>3. Reads(w, "hash", [tx[w] EXCEPT !.previous = m])
    BY <1>1, <2>2 DEF Reads, Txs
  <2> QED BY <2>1, <2>3 DEF Executes
<1>5. CASE WriteLog(w)
  <2> DEFINE drawn == {tx[o].log.id : o \in Workers}
             log == [id |-> 1 + Latest(LogIds \cup drawn), previous |-> Latest(LogIds)]
  <2>1. At(w, "log") /\ Step(w, "log", [tx[w] EXCEPT !.log = log])
    BY <1>5 DEF WriteLog, Step
  <2>2. \A o \in Workers : ~ PastLog(o)
    <3>1. PastAudit(w) /\ ~ PastLog(w)
      BY <2>1 DEF At, PastAudit, PastLog
    <3>2. ASSUME NEW o \in Workers, o # w, PastLog(o)
          PROVE  FALSE
      <4>1. PastAudit(o)
        BY <3>2 DEF PastLog, PastAudit
      <4>2. Lock("audit", "chain", "update") \in held[w] /\ Lock("audit", "chain", "update") \in held[o]
        BY <3>1, <4>1 DEF LocksSound, TxSound, AuditHeld
      <4>3. Clash(Lock("audit", "chain", "update"), Lock("audit", "chain", "update"))
        BY DEF Clash, Lock, Conflict
      <4> QED BY <3>2, <4>2, <4>3 DEF LocksSound, Exclusive
    <3> QED BY <3>1, <3>2
  <2>3. \A o \in Workers : tx[o].log.id = 0
    BY <2>2 DEF LocksSound, TxSound, LogWritten, NoLog
  <2>4. LogIds \subseteq Nat /\ 0 \in LogIds
    BY LogIdsNat DEF LocksSound
  <2>5. LogIds \cup drawn = LogIds
    BY <2>3, <2>4
  <2>6. Latest(LogIds) \in LogIds /\ \A j \in LogIds : j <= Latest(LogIds)
    BY LatestIsLast DEF LocksSound, LogsEnd
  <2> DEFINE last == Latest(LogIds)
  <2>7. log = [id |-> 1 + last, previous |-> last]
    BY <2>5
  <2>8. last \in Nat /\ \A j \in LogIds : j \in Nat /\ j <= last
    BY <2>4, <2>6
  <2> HIDE DEF log, last
  <2>9. log \in Logs /\ log.previous = last /\ \A i \in LogIds : i < log.id
    BY <2>7, <2>8 DEF Logs
  <2>10. Reads(w, "log", [tx[w] EXCEPT !.log = log])
    BY <1>1, <2>9 DEF Reads, Txs, last
  <2> QED BY <2>1, <2>10 DEF Executes
<1> QED BY <1>2, <1>3, <1>4, <1>5 DEF LockPeriod, InsertMove, LockMove, TakeName, LockAudit, InsertKey

\* What a statement leaves of the transaction that executes it.
LEMMA ExecutedFields ==
  ASSUME TypeOK, LocksSound, NEW w \in Workers,
         NEW st \in {"period", "insert", "move", "journal", "hash", "name", "audit", "log", "key"},
         NEW result, Step(w, st, result), Reads(w, st, result)
  PROVE  /\ At(w, st) /\ Running(w) /\ ~ At(w, "commit") /\ Granted(w) /\ Accepted(w)
         /\ tx'[w].at = After(w) /\ tx'[w].name = result.name
         /\ tx'[w].previous = result.previous /\ tx'[w].log = result.log
         /\ held'[w] = held[w] \cup Wants(w) /\ DOMAIN held' = Workers
         /\ held' = [o \in Workers |-> held'[o]]
         /\ \A o \in Workers \ {w} : tx'[o] = tx[o] /\ held'[o] = held[o]
         /\ UNCHANGED <<vars, logs, begun>>
         /\ tx' \in [Workers -> Txs]
<1>1. /\ At(w, st) /\ Granted(w) /\ Accepted(w) /\ UNCHANGED <<vars, logs, begun>>
      /\ tx' = [tx EXCEPT ![w] = [result EXCEPT !.at = After(w)]]
      /\ held' = [held EXCEPT ![w] = @ \cup Wants(w)]
  BY DEF Step
<1>2. Running(w) /\ ~ At(w, "commit")
  BY <1>1 DEF At, Running
<1>3. result \in Txs /\ tx \in [Workers -> Txs]
  BY DEF Reads, LocksSound, LockTypeOK
<1>4. After(w) \in Common \cup {"insert", "move", "key", "none"}
  <2>1. InOrder(w)
    BY DEF LocksSound, TxSound
  <2>2. workers'[w] = workers[w]
    BY <1>1 DEF vars
  <2>3. tx'[w].at = After(w)
    BY <1>1, <1>3 DEF Txs
  <2>4. After(w) \in Points(Kind(w))
    BY <1>2, <2>1, <2>2, <2>3, Advance
  <2> QED BY <2>4 DEF Points
<1> DEFINE next == [result EXCEPT !.at = After(w)]
<1>5. /\ next \in Txs /\ next.at = After(w) /\ next.name = result.name
      /\ next.previous = result.previous /\ next.log = result.log
  BY <1>3, <1>4 DEF Txs
<1>6. tx' = [tx EXCEPT ![w] = next]
  BY <1>1
<1> HIDE DEF next
<1>7. /\ tx'[w] = next /\ tx' \in [Workers -> Txs]
      /\ \A o \in Workers \ {w} : tx'[o] = tx[o]
  BY <1>3, <1>5, <1>6
<1>8. DOMAIN held = Workers
  BY DEF LocksSound, LockTypeOK
<1>9. /\ held'[w] = held[w] \cup Wants(w) /\ DOMAIN held' = Workers
      /\ held' = [o \in Workers |-> held'[o]]
      /\ \A o \in Workers \ {w} : held'[o] = held[o]
  BY <1>1, <1>8
<1> QED BY <1>1, <1>2, <1>5, <1>7, <1>9

LEMMA ExecuteSound ==
  ASSUME TypeOK, LocksSound, NEW w \in Workers, Executes(w)
  PROVE  TxSound(w)'
<1>1. PICK st \in {"period", "insert", "move", "journal", "hash", "name", "audit", "log", "key"} :
        \E result : Step(w, st, result) /\ Reads(w, st, result)
  BY DEF Executes
<1>2. PICK result : Step(w, st, result) /\ Reads(w, st, result)
  BY <1>1
<1>3. /\ At(w, st) /\ Running(w) /\ ~ At(w, "commit") /\ Granted(w) /\ Accepted(w)
      /\ tx'[w].at = After(w) /\ tx'[w].name = result.name
      /\ tx'[w].previous = result.previous /\ tx'[w].log = result.log
      /\ held'[w] = held[w] \cup Wants(w)
      /\ UNCHANGED <<vars, logs, begun>>
  BY <1>1, <1>2, ExecutedFields
<1>4. /\ InOrder(w) /\ HeldOnly(w) /\ PeriodHeld(w) /\ MoveHeld(w) /\ NumberHeld(w) /\ LinkRead(w)
      /\ NameHeld(w) /\ AuditHeld(w) /\ LogWritten(w) /\ KeyHeld(w)
  BY DEF LocksSound, TxSound
<1>5. /\ workers' = workers /\ moves' = moves /\ journals' = journals /\ periods' = periods
      /\ events' = events /\ logs' = logs
  BY <1>3 DEF vars
<1>6. /\ After(w) \in Points(Kind(w)) /\ Kind(w)' = Kind(w)
      /\ PastPeriod(w)' <=> PastPeriod(w) \/ At(w, "period")
      /\ PastMove(w)' <=> PastMove(w) \/ At(w, "move")
      /\ PastInsert(w)' <=> PastInsert(w) \/ At(w, "insert")
      /\ PastJournal(w)' <=> PastJournal(w) \/ At(w, "journal")
      /\ PastHash(w)' <=> PastHash(w) \/ At(w, "hash")
      /\ PastName(w)' <=> PastName(w) \/ At(w, "name")
      /\ PastAudit(w)' <=> PastAudit(w) \/ At(w, "audit")
      /\ PastLog(w)' <=> PastLog(w) \/ At(w, "log")
      /\ PastKey(w)' <=> PastKey(w) \/ At(w, "key")
  BY <1>3, <1>4, <1>5, Advance
<1>7. /\ PeriodOf(w)' = PeriodOf(w) /\ MoveOf(w)' = MoveOf(w) /\ JournalOf(w)' = JournalOf(w)
  BY <1>5 DEF PeriodOf, MoveOf, JournalOf, Kind
<1>8. InOrder(w)'
  <2>1. Running(w)' /\ Kind(w) \in {"post", "reverse", "ingest"}
    BY <1>3, <1>4, <1>6 DEF InOrder, Running, At, Points, Common
  <2> QED BY <1>3, <1>4, <1>5, <1>6, <2>1 DEF InOrder, ValidateBalance
<1>9. Wants(w) = CASE st = "period"  -> {Lock("period", PeriodOf(w), "share")}
                   [] st = "insert"  -> {Lock("journal", JournalOf(w), "key_share"),
                                         Lock("period", PeriodOf(w), "key_share")}
                   [] st = "move"    -> {Lock("move", MoveOf(w), "update")}
                   [] st = "journal" -> {Lock("journal", JournalOf(w), "update")}
                   [] st = "name"    -> {Lock("name", tx[w].name, "update")}
                   [] st = "audit"   -> {Lock("audit", "chain", "update")}
                   [] st = "key"     -> {Lock("key", workers[w].key, "update")}
                   [] OTHER          -> {}
  BY <1>1, <1>3 DEF Wants, At
<1>10. HeldOnly(w)'
  <2> SUFFICES ASSUME NEW l \in held'[w]
               PROVE  \/ l.table = "period" /\ l.mode \in {"share", "key_share"} /\ PastPeriod(w)'
                      \/ l.table = "move" /\ PastMove(w)'
                      \/ l.table = "journal" /\ l.row = JournalOf(w)' /\ PastJournal(w)'
                      \/ /\ l.table = "journal" /\ l.row = JournalOf(w)' /\ PastInsert(w)'
                         /\ l.mode = "key_share"
                      \/ l.table = "name" /\ PastName(w)'
                      \/ l.table = "audit" /\ PastAudit(w)'
                      \/ l.table = "key" /\ PastKey(w)'
    BY DEF HeldOnly
  <2>1. CASE l \in held[w]
    BY <1>4, <1>6, <1>7, <2>1 DEF HeldOnly
  <2>2. CASE l \in Wants(w)
    <3>1. st = "insert" => PastPeriod(w)
      BY <1>3 DEF At, PastPeriod
    <3>2. CASE st = "insert"
      <4>1. Wants(w) = {Lock("journal", JournalOf(w), "key_share"),
                        Lock("period", PeriodOf(w), "key_share")}
        BY <1>9, <3>2
      <4>2. l = Lock("journal", JournalOf(w), "key_share")
              \/ l = Lock("period", PeriodOf(w), "key_share")
        BY <2>2, <4>1
      <4>3. PastInsert(w)' /\ PastPeriod(w)'
        BY <1>3, <1>6, <3>1, <3>2
      <4>4. CASE l = Lock("journal", JournalOf(w), "key_share")
        <5>1. l.table = "journal" /\ l.row = JournalOf(w) /\ l.mode = "key_share"
          BY <4>4, LockFields
        <5> QED BY <1>7, <4>3, <5>1
      <4>5. CASE l = Lock("period", PeriodOf(w), "key_share")
        <5>1. l.table = "period" /\ l.mode = "key_share"
          BY <4>5, LockFields
        <5> QED BY <4>3, <5>1
      <4> QED BY <4>2, <4>4, <4>5
    <3>3. CASE st = "period"
      <4>1. Wants(w) = {Lock("period", PeriodOf(w), "share")}
        BY <1>9, <3>3
      <4>2. l.table = "period" /\ l.mode = "share"
        BY <2>2, <4>1 DEF Lock
      <4>3. PastPeriod(w)'
        BY <1>3, <1>6, <3>3
      <4> QED BY <1>7, <4>2, <4>3
    <3>4. CASE st = "move"
      <4>1. Wants(w) = {Lock("move", MoveOf(w), "update")}
        BY <1>9, <3>4
      <4>2. l.table = "move"
        BY <2>2, <4>1 DEF Lock
      <4>3. PastMove(w)'
        BY <1>3, <1>6, <3>4
      <4> QED BY <1>7, <4>2, <4>3
    <3>5. CASE st = "journal"
      <4>1. Wants(w) = {Lock("journal", JournalOf(w), "update")}
        BY <1>9, <3>5
      <4>2. l.table = "journal" /\ l.row = JournalOf(w)
        BY <2>2, <4>1 DEF Lock
      <4>3. PastJournal(w)'
        BY <1>3, <1>6, <3>5
      <4> QED BY <1>7, <4>2, <4>3
    <3>6. CASE st = "name"
      <4>1. Wants(w) = {Lock("name", tx[w].name, "update")}
        BY <1>9, <3>6
      <4>2. l.table = "name"
        BY <2>2, <4>1 DEF Lock
      <4>3. PastName(w)'
        BY <1>3, <1>6, <3>6
      <4> QED BY <1>7, <4>2, <4>3
    <3>7. CASE st = "audit"
      <4>1. Wants(w) = {Lock("audit", "chain", "update")}
        BY <1>9, <3>7
      <4>2. l.table = "audit"
        BY <2>2, <4>1 DEF Lock
      <4>3. PastAudit(w)'
        BY <1>3, <1>6, <3>7
      <4> QED BY <1>7, <4>2, <4>3
    <3>8. CASE st = "key"
      <4>1. Wants(w) = {Lock("key", workers[w].key, "update")}
        BY <1>9, <3>8
      <4>2. l.table = "key"
        BY <2>2, <4>1 DEF Lock
      <4>3. PastKey(w)'
        BY <1>3, <1>6, <3>8
      <4> QED BY <1>7, <4>2, <4>3
    <3>9. CASE st \in {"hash", "log"}
      BY <1>9, <2>2, <3>9
    <3> QED BY <3>2, <3>3, <3>4, <3>5, <3>6, <3>7, <3>8, <3>9
  <2> QED BY <1>3, <2>1, <2>2
<1>11. PeriodHeld(w)'
  <2>1. st = "period" => /\ Lock("period", PeriodOf(w), "share") \in Wants(w)
                         /\ periods[PeriodOf(w)] = "open"
    BY <1>3, <1>9 DEF Accepted, At
  <2>2. PastPeriod(w) => PeriodHeld(w) /\ Lock("period", PeriodOf(w), "share") \in held[w]
                         /\ periods[PeriodOf(w)] = "open"
    BY <1>4 DEF PeriodHeld
  <2>3. At(w, "period") => st = "period"
    BY <1>3 DEF At
  <2> QED BY <1>3, <1>5, <1>6, <1>7, <2>1, <2>2, <2>3 DEF PeriodHeld
<1>12. MoveHeld(w)'
  <2>1. st = "move" =>
          /\ Lock("move", MoveOf(w), "update") \in Wants(w)
          /\ Kind(w) = "post" => SameRow(workers[w].row, MoveOf(w))
          /\ Kind(w) = "reverse" => /\ moves[MoveOf(w)].state = "posted"
                                    /\ \A m \in MoveIds : moves[m].reverses # MoveOf(w)
    BY <1>3, <1>9 DEF Accepted, At
  <2>2. At(w, "move") => st = "move"
    BY <1>3 DEF At
  <2> QED BY <1>3, <1>4, <1>5, <1>6, <1>7, <2>1, <2>2 DEF MoveHeld, SameRow
<1>13. NumberHeld(w)'
  <2>1. JournalOf(w) \in Journals
    BY <1>3, <1>4, RunningShapes
  <2>2. PICK j \in Journals : j = JournalOf(w)
    BY <2>1
  <2>3. NextName(j)' = NextName(j)
    BY <1>5 DEF NextName
  <2>4. CASE st = "journal"
    <3>1. tx'[w].name = NextName(j) /\ Lock("journal", j, "update") \in held'[w]
      BY <1>2, <1>3, <1>9, <2>2, <2>4 DEF Reads
    <3> QED BY <1>7, <2>2, <2>3, <3>1 DEF NumberHeld
  <2>5. CASE st # "journal"
    <3>1. tx'[w].name = tx[w].name /\ ~ At(w, "journal")
      BY <1>2, <1>3, <2>5 DEF Reads, At
    <3> QED BY <1>3, <1>4, <1>6, <1>7, <2>2, <2>3, <3>1 DEF NumberHeld
  <2> QED BY <2>4, <2>5
<1>14. LinkRead(w)'
  <2>1. JournalOf(w) \in Journals
    BY <1>3, <1>4, RunningShapes
  <2>2. PICK j \in Journals : j = JournalOf(w)
    BY <2>1
  <2>3. LastPosted(j)' = LastPosted(j)
    BY <1>5 DEF LastPosted, PostedIn, Posted
  <2>4. CASE st = "hash"
    <3>1. /\ tx'[w].previous \in LastPosted(j)
          /\ Kind(w) = "reverse" => Cardinality(LinesOf(moves[MoveOf(w)].lines)) >= 2
      BY <1>2, <1>3, <2>2, <2>4 DEF Reads, Accepted, At
    <3> QED BY <1>5, <1>6, <1>7, <2>2, <2>3, <3>1 DEF LinkRead
  <2>5. CASE st # "hash"
    <3>1. tx'[w].previous = tx[w].previous /\ ~ At(w, "hash")
      BY <1>2, <1>3, <2>5 DEF Reads, At
    <3> QED BY <1>4, <1>5, <1>6, <1>7, <2>2, <2>3, <3>1 DEF LinkRead
  <2> QED BY <2>4, <2>5
<1>15. NameHeld(w)'
  <2>1. Posted' = Posted
    BY <1>5 DEF Posted
  <2>2. CASE st = "name"
    <3>1. /\ Lock("name", tx[w].name, "update") \in held'[w] /\ tx'[w].name = tx[w].name
          /\ \A m \in Posted : moves[m].name # tx[w].name
      BY <1>2, <1>3, <1>9, <2>2 DEF Reads, Accepted, At
    <3> QED BY <1>5, <2>1, <3>1 DEF NameHeld
  <2>3. CASE st # "name"
    <3>1. ~ At(w, "name") /\ (PastName(w) => tx'[w].name = tx[w].name)
      BY <1>2, <1>3, <2>3 DEF Reads, At, PastName
    <3> QED BY <1>3, <1>4, <1>5, <1>6, <2>1, <3>1 DEF NameHeld
  <2> QED BY <2>2, <2>3
<1>16. AuditHeld(w)'
  <2>1. st = "audit" => Lock("audit", "chain", "update") \in Wants(w)
    BY <1>9
  <2>2. At(w, "audit") => st = "audit"
    BY <1>3 DEF At
  <2> QED BY <1>3, <1>4, <1>6, <2>1, <2>2 DEF AuditHeld
<1>17. LogWritten(w)'
  <2>1. LogIds' = LogIds
    BY <1>5 DEF LogIds
  <2>2. CASE st = "log"
    <3>1. /\ tx'[w].log.previous = Latest(LogIds) /\ \A i \in LogIds : i < tx'[w].log.id
          /\ At(w, "log")
      BY <1>2, <1>3, <2>2 DEF Reads
    <3> QED BY <1>6, <2>1, <3>1 DEF LogWritten
  <2>3. CASE st # "log"
    <3>1. tx'[w].log = tx[w].log /\ ~ At(w, "log")
      BY <1>2, <1>3, <2>3 DEF Reads, At
    <3> QED BY <1>4, <1>6, <2>1, <3>1 DEF LogWritten
  <2> QED BY <2>2, <2>3
<1>18. KeyHeld(w)'
  <2>1. st = "key" => Lock("key", workers[w].key, "update") \in Wants(w)
                      /\ events[workers[w].key] = NoMove
    BY <1>3, <1>9 DEF Accepted, At
  <2>2. At(w, "key") => st = "key"
    BY <1>3 DEF At
  <2> QED BY <1>3, <1>4, <1>5, <1>6, <2>1, <2>2 DEF KeyHeld
<1> QED BY <1>8, <1>10, <1>11, <1>12, <1>13, <1>14, <1>15, <1>16, <1>17, <1>18 DEF TxSound

\* No lock that is granted conflicts with one that is held.
LEMMA ExecuteExclusive ==
  ASSUME TypeOK, LocksSound, NEW w \in Workers, Executes(w)
  PROVE  Exclusive' /\ LockTypeOK' /\ LogsEnd'
<1>1. PICK st \in {"period", "insert", "move", "journal", "hash", "name", "audit", "log", "key"} :
        \E result : Step(w, st, result) /\ Reads(w, st, result)
  BY DEF Executes
<1>2. PICK result : Step(w, st, result) /\ Reads(w, st, result)
  BY <1>1
<1>3. /\ Granted(w) /\ held'[w] = held[w] \cup Wants(w) /\ DOMAIN held' = Workers
      /\ held' = [o \in Workers |-> held'[o]]
      /\ \A o \in Workers \ {w} : held'[o] = held[o]
      /\ UNCHANGED logs /\ tx' \in [Workers -> Txs]
  BY <1>1, <1>2, ExecutedFields
<1>4. \A a, b : Clash(a, b) <=> Clash(b, a)
  BY DEF Clash, Conflict
<1>5. \A o \in Workers \ {w} : \A l \in Wants(w), k \in held[o] : ~ Clash(l, k)
  BY <1>3 DEF Granted, FreeFor
<1>6. \A x \in Workers : \A o \in Workers \ {x} : \A l \in held[x], k \in held[o] : ~ Clash(l, k)
  BY DEF LocksSound, Exclusive
<1>7. Exclusive'
  <2> SUFFICES ASSUME NEW x \in Workers, NEW o \in Workers \ {x},
                      NEW l \in held'[x], NEW k \in held'[o]
               PROVE  ~ Clash(l, k)
    BY DEF Exclusive
  <2>1. CASE x = w
    BY <1>3, <1>5, <1>6, <2>1
  <2>2. CASE o = w
    BY <1>3, <1>4, <1>5, <1>6, <2>2
  <2>3. CASE x # w /\ o # w
    BY <1>3, <1>6, <2>3
  <2> QED BY <2>1, <2>2, <2>3
<1>8. LockTypeOK' /\ LogsEnd'
  BY <1>3 DEF LocksSound, LockTypeOK, LogsEnd, LogIds
<1> QED BY <1>7, <1>8

LEMMA ExecuteStep ==
  ASSUME TypeOK, LocksSound, NEW w \in Workers, Executes(w)
  PROVE  UNCHANGED vars /\ LocksSound'
<1>1. PICK st \in {"period", "insert", "move", "journal", "hash", "name", "audit", "log", "key"} :
        \E result : Step(w, st, result) /\ Reads(w, st, result)
  BY DEF Executes
<1>2. PICK result : Step(w, st, result) /\ Reads(w, st, result)
  BY <1>1
<1>3. /\ \A o \in Workers \ {w} : tx'[o] = tx[o] /\ held'[o] = held[o]
      /\ UNCHANGED <<vars, logs, begun>>
  BY <1>1, <1>2, ExecutedFields
<1>4. ASSUME NEW o \in Workers, o # w
      PROVE  TxSound(o)'
  <2>1. Undisturbed(o)
    BY <1>3, <1>4 DEF Undisturbed, vars, NextName, LastPosted, PostedIn, Posted, LogIds
  <2>2. TxSound(o)
    BY DEF LocksSound
  <2> QED BY <2>1, <2>2, Frame
<1> QED BY <1>3, <1>4, ExecuteSound, ExecuteExclusive DEF LocksSound

-----------------------------------------------------------------------------
\* A transaction begins and ends.

LEMMA NothingBehind ==
  ASSUME NEW w, tx[w].at = "none"
  PROVE  /\ ~ Running(w) /\ ~ PastPeriod(w) /\ ~ PastMove(w) /\ ~ PastInsert(w) /\ ~ PastJournal(w)
         /\ ~ PastHash(w) /\ ~ PastName(w) /\ ~ PastAudit(w) /\ ~ PastLog(w) /\ ~ PastKey(w)
  BY DEF Running, At, PastPeriod, PastMove, PastInsert, PastJournal, PastHash, PastName, PastAudit,
         PastLog, PastKey

LEMMA IdleHoldsNothing ==
  ASSUME NEW w \in Workers, TxSound(w), ~ Running(w)
  PROVE  tx[w] = NoTx /\ held[w] = {}
<1>1. tx[w] = NoTx /\ HeldOnly(w)
  BY DEF TxSound, InOrder
<1>2. tx[w].at = "none"
  BY <1>1 DEF NoTx
<1> QED BY <1>1, <1>2, NothingBehind DEF HeldOnly

LEMMA IdleSound ==
  ASSUME NEW w \in Workers, tx'[w] = NoTx, held'[w] = {}
  PROVE  TxSound(w)'
<1>1. tx'[w].at = "none" /\ tx'[w].log = NoLog
  BY DEF NoTx
<1>2. /\ ~ Running(w)' /\ ~ PastPeriod(w)' /\ ~ PastMove(w)' /\ ~ PastInsert(w)'
      /\ ~ PastJournal(w)' /\ ~ PastHash(w)' /\ ~ PastName(w)' /\ ~ PastAudit(w)'
      /\ ~ PastLog(w)' /\ ~ PastKey(w)'
  BY <1>1 DEF Running, At, PastPeriod, PastMove, PastInsert, PastJournal, PastHash, PastName,
              PastAudit, PastLog, PastKey
<1> QED BY <1>1, <1>2 DEF TxSound, InOrder, HeldOnly, PeriodHeld, MoveHeld, NumberHeld, LinkRead,
           NameHeld, AuditHeld, LogWritten, KeyHeld

LEMMA EndFrees ==
  ASSUME LocksSound, NEW w \in Workers, End(w), logs' \subseteq Logs
  PROVE  /\ TxSound(w)' /\ Exclusive' /\ LockTypeOK'
         /\ \A o \in Workers \ {w} : tx'[o] = tx[o] /\ held'[o] = held[o]
<1>1. /\ tx' = [tx EXCEPT ![w] = NoTx] /\ held' = [held EXCEPT ![w] = {}]
      /\ tx \in [Workers -> Txs] /\ DOMAIN held = Workers /\ logs \subseteq Logs
  BY DEF End, LocksSound, LockTypeOK
<1>2. NoTx \in Txs
  BY DEF NoTx, Txs, NoName, Names, NoLog, Logs
<1>3. /\ tx'[w] = NoTx /\ held'[w] = {} /\ tx' \in [Workers -> Txs] /\ DOMAIN held' = Workers
      /\ held' = [o \in Workers |-> held'[o]]
      /\ \A o \in Workers \ {w} : tx'[o] = tx[o] /\ held'[o] = held[o]
  BY <1>1, <1>2
<1>4. TxSound(w)'
  BY <1>3, IdleSound
<1>5. Exclusive'
  BY <1>3 DEF LocksSound, Exclusive
<1> QED BY <1>1, <1>3, <1>4, <1>5 DEF LockTypeOK

LEMMA FirstStatement ==
  /\ Statements("post")[1] = "period" /\ Statements("reverse")[1] = "move"
  /\ Statements("ingest")[1] = "period"
<1>1. Statements("post") = <<"period", "move", "journal", "hash", "name", "audit", "log", "commit">>
  BY DEF Statements
<1>2. Statements("reverse") = <<"move", "period", "journal", "hash", "name", "audit", "log", "commit">>
  BY DEF Statements
<1>3. Statements("ingest") = <<"period", "insert", "journal", "hash", "name", "audit", "log",
                               "key", "commit">>
  BY DEF Statements
<1> QED BY <1>1, <1>2, <1>3

LEMMA BeginStep ==
  ASSUME TypeOK, LocksSound, NEW w \in Workers, BeginTx(w)
  PROVE  UNCHANGED vars /\ LocksSound'
<1>1. /\ ~ Running(w) /\ Kind(w) \in {"post", "reverse", "ingest"}
      /\ Kind(w) # "reverse" => ValidateBalance(workers[w].row)
      /\ tx' = [tx EXCEPT ![w].at = Statements(Kind(w))[1]]
      /\ UNCHANGED <<vars, held, logs>>
  BY DEF BeginTx
<1>2. tx[w] = NoTx /\ held[w] = {}
  BY <1>1, IdleHoldsNothing DEF LocksSound
<1> DEFINE first == Statements(Kind(w))[1]
<1>3. first = IF Kind(w) = "reverse" THEN "move" ELSE "period"
  BY <1>1, FirstStatement
<1>4. tx \in [Workers -> Txs] /\ DOMAIN held = Workers /\ held = [o \in Workers |-> held[o]]
  BY DEF LocksSound, LockTypeOK
<1> HIDE DEF first
<1>5. /\ tx'[w] = [NoTx EXCEPT !.at = first] /\ \A o \in Workers \ {w} : tx'[o] = tx[o]
      /\ tx' \in [Workers -> Txs]
  <2>1. [NoTx EXCEPT !.at = first] \in Txs
    BY <1>3 DEF NoTx, Txs, Common, NoName, Names, NoLog, Logs
  <2>2. tx' = [tx EXCEPT ![w] = [NoTx EXCEPT !.at = first]]
    BY <1>1, <1>2 DEF first
  <2> HIDE DEF first
  <2> QED BY <1>4, <2>1, <2>2
<1>6. tx'[w].at = first /\ tx'[w].log = NoLog
  BY <1>5 DEF NoTx
<1>7. /\ workers' = workers /\ moves' = moves /\ journals' = journals /\ periods' = periods
      /\ events' = events /\ logs' = logs /\ held' = held
  BY <1>1 DEF vars
<1>8. Kind(w)' = Kind(w)
  BY <1>7 DEF Kind
<1>9. /\ Running(w)' /\ ~ PastPeriod(w)' /\ ~ PastMove(w)' /\ ~ PastInsert(w)'
      /\ ~ PastJournal(w)' /\ ~ PastHash(w)' /\ ~ PastName(w)' /\ ~ PastAudit(w)'
      /\ ~ PastLog(w)' /\ ~ PastKey(w)'
  BY <1>3, <1>6, <1>8 DEF Running, At, PastPeriod, PastMove, PastInsert, PastJournal, PastHash,
     PastName, PastAudit, PastLog, PastKey
<1>10. InOrder(w)'
  BY <1>1, <1>3, <1>6, <1>7, <1>8, <1>9 DEF InOrder, Points, Common, ValidateBalance
<1>11. TxSound(w)'
  BY <1>2, <1>6, <1>7, <1>9, <1>10 DEF TxSound, HeldOnly, PeriodHeld, MoveHeld, NumberHeld,
     LinkRead, NameHeld, AuditHeld, LogWritten, KeyHeld
<1>12. ASSUME NEW o \in Workers, o # w
       PROVE  TxSound(o)'
  <2>1. Undisturbed(o)
    BY <1>5, <1>7, <1>12 DEF Undisturbed, NextName, LastPosted, PostedIn, Posted, LogIds
  <2>2. TxSound(o)
    BY DEF LocksSound
  <2> QED BY <2>1, <2>2, Frame
<1>13. Exclusive' /\ LockTypeOK' /\ LogsEnd'
  BY <1>4, <1>5, <1>7 DEF LocksSound, Exclusive, LockTypeOK, LogsEnd, LogIds
<1> QED BY <1>1, <1>11, <1>12, <1>13 DEF LocksSound

LEMMA RollbackStep ==
  ASSUME TypeOK, LocksSound, NEW w \in Workers, Rollback(w)
  PROVE  Next /\ LocksSound'
<1>1. /\ Fail(w) \/ IngestFails(w)
      /\ End(w) /\ UNCHANGED logs
  BY DEF Rollback
<1>2. Next
  BY <1>1 DEF Next
<1>3. /\ UNCHANGED <<moves, journals, periods, audit, events, replies>>
      /\ \A o \in Workers \ {w} : workers'[o] = workers[o]
  BY <1>1, GoesThere DEF Fail, IngestFails
<1>4. /\ TxSound(w)' /\ Exclusive' /\ LockTypeOK'
      /\ \A o \in Workers \ {w} : tx'[o] = tx[o] /\ held'[o] = held[o]
  BY <1>1, EndFrees DEF LocksSound, LockTypeOK
<1>5. ASSUME NEW o \in Workers, o # w
      PROVE  TxSound(o)'
  <2>1. Undisturbed(o)
    BY <1>1, <1>3, <1>4, <1>5 DEF Undisturbed, NextName, LastPosted, PostedIn, Posted, LogIds
  <2>2. TxSound(o)
    BY DEF LocksSound
  <2> QED BY <2>1, <2>2, Frame
<1>6. LogsEnd'
  BY <1>1 DEF LocksSound, LogsEnd, LogIds
<1> QED BY <1>2, <1>4, <1>5, <1>6 DEF LocksSound

-----------------------------------------------------------------------------
\* Commits.

\* What a transaction has read is what Publish would read when it commits.
LEMMA CommitPublishes ==
  ASSUME TypeOK, LocksSound, NEW w \in Workers, At(w, "commit"),
         NEW m \in MoveIds, NEW row \in MoveRows, NEW actor, NEW entity, NEW action,
         row.journal = JournalOf(w), Publishes(w, m, row, actor, entity, action)
  PROVE  Publish(m, row, actor, entity, action) /\ UNCHANGED periods
<1> DEFINE j == row.journal
<1>1. NumberHeld(w) /\ LinkRead(w) /\ NameHeld(w)
  BY DEF LocksSound, TxSound
<1>2. PastJournal(w) /\ PastHash(w) /\ PastName(w)
  BY DEF At, PastJournal, PastHash, PastName
<1>3. tx[w].name = NextName(j) /\ tx[w].previous \in LastPosted(j)
  BY <1>1, <1>2 DEF NumberHeld, LinkRead
<1>4. NameFree(j)
  BY <1>1, <1>2, <1>3 DEF NameHeld, NameFree
<1>5. tx[w].name.number = journals[j].next
  BY <1>3 DEF NextName
<1>6. journals' = [journals EXCEPT ![j].next = @ + 1]
  <2>1. journals' = [journals EXCEPT ![j].next = tx[w].name.number + 1]
    BY DEF Publishes
  <2> HIDE DEF j
  <2> QED BY <1>5, <2>1
<1>7. moves' = [moves EXCEPT ![m] =
         [row EXCEPT !.state = "posted", !.name = NextName(j), !.previous = tx[w].previous,
                     !.postedBy = actor]]
  BY <1>3 DEF Publishes
<1> QED BY <1>3, <1>4, <1>6, <1>7 DEF Publish, Publishes

\* The last posted moves of a journal depend on its posted rows alone.
LEMMA LastSame ==
  ASSUME NEW j, PostedIn(j)' = PostedIn(j), \A x \in PostedIn(j) : moves'[x] = moves[x]
  PROVE  LastPosted(j)' = LastPosted(j)
<1>1. CASE PostedIn(j) = {}
  BY <1>1 DEF LastPosted
<1>2. CASE PostedIn(j) # {}
  <2> DEFINE last == {x \in PostedIn(j) : \A y \in PostedIn(j) \ {x} :
                        NameBefore(moves[y].name, moves[x].name)}
             later == {x \in PostedIn(j) : \A y \in PostedIn(j) \ {x} :
                         NameBefore(moves'[y].name, moves'[x].name)}
  <2>1. LastPosted(j)' = later
    BY <1>2 DEF LastPosted, NameBefore, NumberBefore
  <2>2. LastPosted(j) = last
    BY <1>2 DEF LastPosted
  <2>3. \A x, y \in PostedIn(j) :
          NameBefore(moves'[y].name, moves'[x].name) <=> NameBefore(moves[y].name, moves[x].name)
    OBVIOUS
  <2>4. later = last
    BY <2>3
  <2> QED BY <2>1, <2>2, <2>4
<1> QED BY <1>1, <1>2

\* Whoever else is in the middle of a transaction is not disturbed by a commit.
LEMMA CommitUndisturbed ==
  ASSUME TypeOK, LocksSound, NEW w \in Workers, At(w, "commit"),
         NEW m \in MoveIds, NEW row \in MoveRows, NEW actor, NEW entity, NEW action,
         moves[m].state # "posted", row.journal = JournalOf(w),
         Publish(m, row, actor, entity, action), UNCHANGED periods,
         NEW o \in Workers, o # w,
         tx'[o] = tx[o], held'[o] = held[o], workers'[o] = workers[o],
         PastMove(o) => MoveOf(o) # m,
         PastMove(o) /\ Kind(o) = "reverse" /\ row.reverses = MoveOf(o)
           => moves[m].reverses = MoveOf(o),
         PastKey(o) => events'[workers[o].key] = events[workers[o].key]
  PROVE  Undisturbed(o)
<1>1. /\ TxSound(w) /\ TxSound(o)
      /\ \A l \in held[w], k \in held[o] : ~ Clash(l, k)
  BY DEF LocksSound, Exclusive
<1>2. /\ PastJournal(w) /\ PastName(w) /\ PastAudit(w)
  BY DEF At, PastJournal, PastName, PastAudit
<1>3. \A t, r : Clash(Lock(t, r, "update"), Lock(t, r, "update"))
  BY DEF Clash, Lock, Conflict
<1>4. /\ Lock("journal", JournalOf(w), "update") \in held[w] /\ tx[w].name = NextName(row.journal)
      /\ Lock("name", tx[w].name, "update") \in held[w]
      /\ Lock("audit", "chain", "update") \in held[w]
  BY <1>1, <1>2 DEF TxSound, NumberHeld, NameHeld, AuditHeld
<1>5. /\ moves'[m].name = NextName(row.journal) /\ moves'[m].reverses = row.reverses
      /\ \A x \in MoveIds \ {m} : moves'[x] = moves[x]
      /\ \A j \in Journals \ {row.journal} : journals'[j] = journals[j]
  BY Published
<1>6. /\ Posted' = Posted \cup {m}
      /\ \A j \in Journals \ {row.journal} : PostedIn(j)' = PostedIn(j)
      /\ \A x \in Posted : moves'[x] = moves[x]
  BY PostedInAfter
<1>7. PastMove(o) => moves'[MoveOf(o)] = moves[MoveOf(o)]
  <2>1. PastMove(o) => MoveOf(o) \in MoveIds
    BY <1>1, RunningShapes DEF TxSound, PastMove, Running, At
  <2> QED BY <1>5, <2>1
<1>8. PastMove(o) /\ Kind(o) = "reverse" =>
        \A x \in MoveIds : moves'[x].reverses = MoveOf(o) => moves[x].reverses = MoveOf(o)
  BY <1>5
<1>9. PastJournal(o) => \A j \in Journals : j = JournalOf(o) =>
        NextName(j)' = NextName(j) /\ LastPosted(j)' = LastPosted(j)
  <2> SUFFICES ASSUME PastJournal(o), NEW j \in Journals, j = JournalOf(o)
               PROVE  NextName(j)' = NextName(j) /\ LastPosted(j)' = LastPosted(j)
    OBVIOUS
  <2>1. Lock("journal", j, "update") \in held[o]
    BY <1>1 DEF TxSound, NumberHeld
  <2>2. j # row.journal
    BY <1>1, <1>3, <1>4, <2>1
  <2>3. journals'[j] = journals[j] /\ PostedIn(j)' = PostedIn(j)
    BY <1>5, <1>6, <2>2
  <2>4. \A x \in PostedIn(j) : moves'[x] = moves[x]
    BY <1>6 DEF PostedIn
  <2>5. NextName(j)' = NextName(j)
    BY <2>3 DEF NextName
  <2>6. LastPosted(j)' = LastPosted(j)
    BY <2>3, <2>4, LastSame
  <2> QED BY <2>5, <2>6
<1>10. PastName(o) =>
         \A x \in Posted' : moves'[x].name = tx[o].name => x \in Posted /\ moves[x].name = tx[o].name
  <2> SUFFICES ASSUME PastName(o), NEW x \in Posted', moves'[x].name = tx[o].name
               PROVE  x \in Posted /\ moves[x].name = tx[o].name
    OBVIOUS
  <2>1. Lock("name", tx[o].name, "update") \in held[o]
    BY <1>1 DEF TxSound, NameHeld
  <2>2. x # m
    BY <1>1, <1>3, <1>4, <1>5, <2>1
  <2> QED BY <1>6, <2>2
<1>11. ~ PastLog(o)
  <2>1. PastLog(o) => Lock("audit", "chain", "update") \in held[o]
    BY <1>1 DEF TxSound, AuditHeld, PastLog, PastAudit
  <2> QED BY <1>1, <1>3, <1>4, <2>1
<1> QED BY <1>7, <1>8, <1>9, <1>10, <1>11 DEF Undisturbed

\* A commit ends the log at the entry it writes.
LEMMA CommitLogs ==
  ASSUME LocksSound, NEW w \in Workers, At(w, "commit"), logs' = logs \cup {tx[w].log}
  PROVE  LogsEnd' /\ logs' \subseteq Logs
<1>1. LogWritten(w) /\ PastLog(w)
  BY DEF LocksSound, TxSound, At, PastLog
<1>2. \A i \in LogIds : i < tx[w].log.id
  BY <1>1 DEF LogWritten
<1>3. LogIds' = LogIds \cup {tx[w].log.id}
  BY DEF LogIds
<1>4. tx[w].log \in Logs /\ LogIds \subseteq Nat
  BY LogIdsNat DEF LocksSound, LockTypeOK, Txs
<1>5. tx[w].log.id \in Nat
  BY <1>4 DEF Logs
<1>6. \A i \in LogIds' : i <= tx[w].log.id
  <2> SUFFICES ASSUME NEW ids, ids = LogIds', NEW i \in ids
               PROVE  i <= tx[w].log.id
    OBVIOUS
  <2>1. i \in LogIds \/ i = tx[w].log.id
    BY <1>3
  <2>2. i \in LogIds => i \in Nat /\ i < tx[w].log.id
    BY <1>2, <1>4
  <2> QED BY <1>5, <2>1, <2>2
<1> QED BY <1>3, <1>4, <1>6 DEF LogsEnd, LocksSound, LockTypeOK

\* What a commit writes is what Publish writes, and it leaves every other
\* transaction with what it knows.
LEMMA CommitSound ==
  ASSUME TypeOK, LocksSound, NEW w \in Workers, At(w, "commit"),
         NEW m \in MoveIds, NEW row \in MoveRows, NEW actor, NEW entity, NEW action,
         moves[m].state # "posted", row.journal = JournalOf(w),
         Publishes(w, m, row, actor, entity, action), End(w),
         \A o \in Workers \ {w} :
           /\ workers'[o] = workers[o]
           /\ PastMove(o) => MoveOf(o) # m
           /\ PastMove(o) /\ Kind(o) = "reverse" /\ row.reverses = MoveOf(o)
                => moves[m].reverses = MoveOf(o)
           /\ PastKey(o) => events'[workers[o].key] = events[workers[o].key]
  PROVE  Publish(m, row, actor, entity, action) /\ UNCHANGED periods /\ LocksSound'
<1>1. Publish(m, row, actor, entity, action) /\ UNCHANGED periods
  BY CommitPublishes
<1>2. logs' = logs \cup {tx[w].log}
  BY DEF Publishes
<1>3. LogsEnd' /\ logs' \subseteq Logs
  BY <1>2, CommitLogs
<1>4. /\ TxSound(w)' /\ Exclusive' /\ LockTypeOK'
      /\ \A o \in Workers \ {w} : tx'[o] = tx[o] /\ held'[o] = held[o]
  BY <1>3, EndFrees
<1>5. ASSUME NEW o \in Workers, o # w
      PROVE  TxSound(o)'
  <2>1. Undisturbed(o)
    BY <1>1, <1>4, <1>5, CommitUndisturbed
  <2> QED BY <2>1, Frame DEF LocksSound
<1> QED BY <1>1, <1>3, <1>4, <1>5 DEF LocksSound

LEMMA CommitPostStep ==
  ASSUME TypeOK, JournalsExist, Sound, LocksSound, NEW w \in Workers, CommitPost(w)
  PROVE  PostMove(w) /\ LocksSound'
<1> DEFINE req == workers[w]
           m == MoveOf(w)
           row == [moves[m] EXCEPT !.lines = Stored(req.row.lines), !.version = @ + 1]
<1>1. /\ At(w, "commit") /\ Kind(w) = "post" /\ Running(w) /\ TxSound(w)
      /\ Publishes(w, m, row, req.actor, m, "POST")
      /\ UNCHANGED <<events, replies>> /\ End(w)
  BY DEF CommitPost, At, Running, LocksSound
<1>2. /\ req \in PostWorkers /\ m = Head(req.queue) /\ m \in MoveIds
  BY <1>1, RunningShapes DEF TxSound
<1>3. req.row \in MoveRows /\ moves[m] \in MoveRows
  BY <1>2 DEF PostWorkers, TypeOK
<1>4. row \in MoveRows
  <2>1. Stored(req.row.lines) \in Entries
    BY <1>3, StoredType DEF MoveRows
  <2> QED BY <1>3, <2>1, RewrittenRowType
<1>5. /\ periods[req.row.period] = "open" /\ SameRow(req.row, m) /\ ValidateBalance(req.row)
      /\ Lock("move", m, "update") \in held[w]
  <2>1. PastPeriod(w) /\ PastMove(w)
    BY <1>1 DEF At, PastPeriod, PastMove
  <2> QED BY <1>1, <2>1 DEF TxSound, InOrder, PeriodHeld, MoveHeld, PeriodOf
<1>6. row.journal = JournalOf(w) /\ row.reverses = moves[m].reverses /\ moves[m].state = "draft"
  <2>1. row.journal = moves[m].journal /\ row.reverses = moves[m].reverses
    <3> HIDE DEF m
    <3> QED BY <1>3 DEF MoveRows
  <2> QED BY <1>1, <1>5, <2>1 DEF JournalOf, SameRow
<1>7. Goes(w, IF Tail(req.queue) = <<>> THEN Idle
              ELSE [op |-> "bulk", queue |-> Tail(req.queue),
                    done |-> req.done \cup {m}, actor |-> req.actor])
  BY DEF CommitPost
<1>8. \A o \in Workers \ {w} : workers'[o] = workers[o]
  BY <1>7, GoesThere
<1>9. \A o \in Workers \ {w} : PastMove(o) => MoveOf(o) # m
  <2> HIDE DEF m
  <2> SUFFICES ASSUME NEW o \in Workers, o # w, PastMove(o)
               PROVE  MoveOf(o) # m
    OBVIOUS
  <2>1. Lock("move", MoveOf(o), "update") \in held[o]
    BY DEF LocksSound, TxSound, MoveHeld
  <2>2. Clash(Lock("move", m, "update"), Lock("move", m, "update"))
    BY DEF Clash, Lock, Conflict
  <2> QED BY <1>5, <2>1, <2>2 DEF LocksSound, Exclusive
<1>10. Publish(m, row, req.actor, m, "POST") /\ UNCHANGED periods /\ LocksSound'
  <2>1. moves[m].state # "posted"
    BY <1>6
  <2> HIDE DEF row, m, req
  <2> QED BY <1>1, <1>2, <1>4, <1>6, <1>8, <1>9, <2>1, CommitSound
<1>11. PostMove(w)
  <2>1. Doing(w, "post")
    BY <1>1 DEF Kind, Doing
  <2>2. m = Head(workers[w].queue)
    BY <1>2
  <2> HIDE DEF m
  <2> QED BY <1>1, <1>5, <1>7, <1>10, <2>1, <2>2 DEF PostMove
<1> QED BY <1>10, <1>11

LEMMA CommitReversalStep ==
  ASSUME TypeOK, JournalsExist, Sound, LocksSound, NEW w \in Workers, CommitReversal(w)
  PROVE  ReverseMove(w) /\ LocksSound'
<1> DEFINE req == workers[w]
           o == MoveOf(w)
           row == [DraftRow(req.journal, req.period, Stored(Mirror(moves[o].lines)), 1, NoActor)
                     EXCEPT !.reverses = o]
<1>1. /\ At(w, "commit") /\ Kind(w) = "reverse" /\ Running(w) /\ TxSound(w)
      /\ Goes(w, Idle) /\ UNCHANGED <<events, replies>> /\ End(w)
  BY DEF CommitReversal, At, Running, LocksSound
<1>2. /\ req \in ReverseWorkers /\ o = req.original /\ o \in MoveIds
      /\ req.journal \in Journals /\ req.period \in Periods
      /\ JournalOf(w) = req.journal /\ PeriodOf(w) = req.period
  <2>1. InOrder(w)
    BY <1>1 DEF TxSound
  <2> QED BY <1>1, <2>1, RunningShapes DEF ReverseWorkers, JournalOf, PeriodOf
<1>3. PICK m \in Unused : Publishes(w, m, row, req.actor, o, "REVERSE")
  BY DEF CommitReversal
<1>4. m \in MoveIds /\ moves[m].state = "absent"
  BY DEF Unused
<1>5. PastPeriod(w) /\ PastMove(w) /\ PastHash(w)
  BY <1>1 DEF At, PastPeriod, PastMove, PastHash
<1>6. /\ moves[o].state = "posted" /\ \A x \in MoveIds : moves[x].reverses # o
      /\ periods[req.period] = "open" /\ Cardinality(LinesOf(moves[o].lines)) >= 2
      /\ Lock("move", o, "update") \in held[w]
  BY <1>1, <1>2, <1>5 DEF TxSound, PeriodHeld, MoveHeld, LinkRead
<1>7. row \in MoveRows /\ row.journal = JournalOf(w) /\ row.reverses = o
  <2>1. Stored(Mirror(moves[o].lines)) \in Entries
    BY <1>2, StoredType, MirrorType DEF TypeOK, MoveRows
  <2> DEFINE draft == DraftRow(req.journal, req.period, Stored(Mirror(moves[o].lines)), 1, NoActor)
  <2>2. draft \in MoveRows
    BY <1>2, <2>1, DraftRowType
  <2>3. draft.journal = req.journal
    BY DEF DraftRow, AbsentRow
  <2>4. row = [draft EXCEPT !.reverses = o]
    OBVIOUS
  <2> HIDE DEF o, req, draft, row
  <2> QED BY <1>2, <2>2, <2>3, <2>4 DEF MoveRows
<1>8. \A x \in Workers \ {w} : workers'[x] = workers[x]
  BY <1>1, GoesThere
<1>9. ASSUME NEW x \in Workers, x # w, PastMove(x)
      PROVE  MoveOf(x) # m /\ ~ (Kind(x) = "reverse" /\ o = MoveOf(x))
  <2> HIDE DEF o, row, req
  <2>1. /\ Lock("move", MoveOf(x), "update") \in held[x]
        /\ Kind(x) = "post" => SameRow(workers[x].row, MoveOf(x))
        /\ Kind(x) = "reverse" => moves[MoveOf(x)].state = "posted"
        /\ Kind(x) \in {"post", "reverse"}
    <3>1. MoveHeld(x) /\ InOrder(x)
      BY DEF LocksSound, TxSound
    <3>2. Running(x) /\ Kind(x) # "ingest"
      BY <1>9 DEF PastMove, Running, At
    <3> QED BY <1>9, <3>1, <3>2 DEF MoveHeld, InOrder
  <2>2. MoveOf(x) # m
    BY <1>4, <2>1 DEF SameRow
  <2>3. Clash(Lock("move", o, "update"), Lock("move", o, "update"))
    BY DEF Clash, Lock, Conflict
  <2> QED BY <1>6, <1>9, <2>1, <2>2, <2>3 DEF LocksSound, Exclusive
<1>10. Publish(m, row, req.actor, o, "REVERSE") /\ UNCHANGED periods /\ LocksSound'
  <2>1. moves[m].state # "posted" /\ events' = events
    BY <1>1, <1>4
  <2> HIDE DEF row, o, req
  <2> QED BY <1>1, <1>3, <1>4, <1>7, <1>8, <1>9, <2>1, CommitSound
<1>11. ReverseMove(w)
  <2>1. Doing(w, "reverse")
    BY <1>1 DEF Kind, Doing
  <2> HIDE DEF o
  <2> QED BY <1>1, <1>2, <1>3, <1>6, <1>10, <2>1 DEF ReverseMove
<1> QED BY <1>10, <1>11

LEMMA CommitIngestStep ==
  ASSUME TypeOK, JournalsExist, Sound, LocksSound, NEW w \in Workers, CommitIngest(w)
  PROVE  IngestEvent(w) /\ LocksSound'
<1> DEFINE req == workers[w]
           k == req.key
           row == [req.row EXCEPT !.version = 1]
<1>1. /\ At(w, "commit") /\ Kind(w) = "ingest" /\ Running(w) /\ TxSound(w) /\ End(w)
  BY DEF CommitIngest, At, Running, LocksSound
<1>2. /\ req \in IngestWorkers /\ k \in Keys /\ req.row \in MoveRows
      /\ JournalOf(w) = req.row.journal /\ PeriodOf(w) = req.row.period
  <2>1. InOrder(w)
    BY <1>1 DEF TxSound
  <2> QED BY <1>1, <2>1, RunningShapes DEF IngestWorkers, JournalOf, PeriodOf
<1>3. PICK m \in Unused :
        /\ Publishes(w, m, row, NoActor, m, "INGEST_POST")
        /\ events' = [events EXCEPT ![k] = m]
        /\ \/ Reply(k, m) /\ Goes(w, Idle)
           \/ UNCHANGED replies /\ Goes(w, [op |-> "lookup", key |-> k])
  BY DEF CommitIngest
<1>4. m \in MoveIds /\ moves[m].state = "absent"
  BY DEF Unused
<1>5. PastPeriod(w) /\ PastKey(w)
  BY <1>1 DEF At, PastPeriod, PastKey
<1>6. /\ periods[req.row.period] = "open" /\ events[k] = NoMove /\ ValidateBalance(req.row)
      /\ Lock("key", k, "update") \in held[w]
  BY <1>1, <1>2, <1>5 DEF TxSound, InOrder, PeriodHeld, KeyHeld
<1>7. row \in MoveRows /\ row.journal = JournalOf(w) /\ row.reverses = NoMove
  <2>1. req.row.reverses = NoMove
    BY <1>1 DEF Sound, RequestsSound, RequestSound, Kind
  <2>2. row \in MoveRows /\ row.journal = req.row.journal /\ row.reverses = req.row.reverses
    <3> HIDE DEF req
    <3> QED BY <1>2 DEF MoveRows
  <2> QED BY <1>2, <2>1, <2>2
<1>8. \A x \in Workers \ {w} : workers'[x] = workers[x]
  BY <1>3, GoesThere
<1>9. ASSUME NEW x \in Workers, x # w, PastMove(x)
      PROVE  MoveOf(x) # m /\ ~ (Kind(x) = "reverse" /\ NoMove = MoveOf(x))
  <2>1. MoveHeld(x) /\ InOrder(x)
    BY DEF LocksSound, TxSound
  <2>2. Running(x) /\ Kind(x) # "ingest"
    BY <1>9 DEF PastMove, Running, At
  <2>3. /\ Kind(x) = "post" => SameRow(workers[x].row, MoveOf(x))
        /\ Kind(x) = "reverse" => moves[MoveOf(x)].state = "posted"
        /\ Kind(x) \in {"post", "reverse"} /\ MoveOf(x) \in MoveIds
    BY <1>9, <2>1, <2>2, RunningShapes DEF MoveHeld, InOrder
  <2> QED BY <1>4, <2>3, NullAssumption DEF SameRow
<1>10. ASSUME NEW x \in Workers, x # w, PastKey(x)
       PROVE  events'[workers[x].key] = events[workers[x].key]
  <2>1. Lock("key", workers[x].key, "update") \in held[x]
    BY <1>10 DEF LocksSound, TxSound, KeyHeld
  <2>2. Clash(Lock("key", k, "update"), Lock("key", k, "update"))
    BY DEF Clash, Lock, Conflict
  <2>3. workers[x].key # k
    <3> HIDE DEF k, req
    <3> QED BY <1>6, <1>10, <2>1, <2>2 DEF LocksSound, Exclusive
  <2> HIDE DEF k, req
  <2> QED BY <1>3, <2>3 DEF TypeOK
<1>11. Publish(m, row, NoActor, m, "INGEST_POST") /\ UNCHANGED periods /\ LocksSound'
  <2>1. moves[m].state # "posted"
    BY <1>4
  <2>2. Publishes(w, m, row, NoActor, m, "INGEST_POST")
    BY <1>3
  <2> HIDE DEF row, k, req
  <2> QED BY <1>1, <1>4, <1>7, <1>8, <1>9, <1>10, <2>1, <2>2, CommitSound
<1>12. IngestEvent(w)
  <2>1. Doing(w, "ingest")
    BY <1>1 DEF Kind, Doing
  <2> QED BY <1>3, <1>6, <1>11, <2>1 DEF IngestEvent
<1> QED BY <1>11, <1>12

-----------------------------------------------------------------------------
\* The short transactions of Ledger.

LEMMA ShortFrame ==
  ASSUME LocksSound, UNCHANGED lockVars, \A o \in Workers : Running(o) => Undisturbed(o)
  PROVE  LocksSound'
<1>1. tx' = tx /\ held' = held /\ logs' = logs
  BY DEF lockVars
<1>2. LockTypeOK' /\ Exclusive' /\ LogsEnd'
  BY <1>1 DEF LocksSound, LockTypeOK, Exclusive, LogsEnd, LogIds
<1>3. ASSUME NEW o \in Workers
      PROVE  TxSound(o)'
  <2>1. TxSound(o)
    BY DEF LocksSound
  <2>2. CASE Running(o)
    BY <2>1, <2>2, Frame
  <2>3. CASE ~ Running(o)
    <3>1. tx'[o] = NoTx /\ held'[o] = {}
      BY <1>1, <2>1, <2>3, IdleHoldsNothing
    <3> QED BY <3>1, IdleSound
  <2> QED BY <2>2, <2>3
<1> QED BY <1>2, <1>3 DEF LocksSound

\* A step that leaves the tables and the transactions alone.
LEMMA NothingMoves ==
  ASSUME LocksSound, UNCHANGED lockVars, UNCHANGED <<moves, journals, periods, events>>,
         \A o \in Workers : Running(o) => workers'[o] = workers[o]
  PROVE  LocksSound'
<1>1. tx' = tx /\ held' = held /\ logs' = logs
  BY DEF lockVars
<1>2. \A o \in Workers : Running(o) => Undisturbed(o)
  BY <1>1 DEF Undisturbed, NextName, LastPosted, PostedIn, Posted, LogIds
<1> QED BY <1>2, ShortFrame

\* A request that is not in the middle of a transaction goes on.
LEMMA OneGoes ==
  ASSUME TypeOK, NEW w \in Workers, ~ Running(w), NEW state, Goes(w, state)
  PROVE  \A o \in Workers : Running(o) => workers'[o] = workers[o]
  BY GoesThere

LEMMA NotBegun ==
  ASSUME LocksSound, NEW w \in Workers, Kind(w) \notin {"post", "reverse", "ingest"}
  PROVE  ~ Running(w)
  BY DEF LocksSound, TxSound, InOrder

LEMMA ReadStep ==
  ASSUME TypeOK, LocksSound, NEW w \in Workers, Read(w), UNCHANGED lockVars
  PROVE  Next /\ LocksSound'
<1>1. Next
  BY DEF Read, Next
<1>2. /\ UNCHANGED <<moves, journals, periods, events>>
      /\ workers[w].op \in {"idle", "bulk", "read", "lookup"}
      /\ \E state : Goes(w, state)
  BY DEF Read, CreateDraft, UpdateDraft, BeginIngest, BeginPosting, BeginReverse, ReadHeader,
     ReadLines, LookUp, Free, Doing
<1>3. ~ Running(w)
  BY <1>2, NotBegun DEF Kind
<1>4. \A o \in Workers : Running(o) => workers'[o] = workers[o]
  BY <1>2, <1>3, OneGoes
<1> QED BY <1>1, <1>2, <1>4, NothingMoves

\* The row that a transaction has locked is not the one a save or a deletion writes.
LEMMA RedraftFrame ==
  ASSUME TypeOK, LocksSound, UNCHANGED lockVars, Redraft, UNCHANGED events,
         NEW m \in MoveIds, NEW r, moves' = [moves EXCEPT ![m] = r], r.reverses = NoMove,
         \A o \in Workers : Running(o) => workers'[o] = workers[o],
         \A o \in Workers : PastMove(o) => MoveOf(o) # m
  PROVE  LocksSound'
<1>1. tx' = tx /\ held' = held /\ logs' = logs
  BY DEF lockVars
<1>2. moves'[m] = r /\ \A x \in MoveIds \ {m} : moves'[x] = moves[x]
  BY DEF TypeOK
<1>3. UNCHANGED <<journals, periods>>
  BY DEF Redraft
<1>4. /\ Posted' = Posted /\ \A x \in Posted : moves'[x] = moves[x]
      /\ \A j \in Journals : PostedIn(j)' = PostedIn(j)
  BY PostedSame
<1>5. \A j \in Journals : NextName(j)' = NextName(j) /\ LastPosted(j)' = LastPosted(j)
  <2> SUFFICES ASSUME NEW j \in Journals
               PROVE  NextName(j)' = NextName(j) /\ LastPosted(j)' = LastPosted(j)
    OBVIOUS
  <2>1. \A x \in PostedIn(j) : moves'[x] = moves[x]
    BY <1>4 DEF PostedIn
  <2>2. LastPosted(j)' = LastPosted(j)
    BY <1>4, <2>1, LastSame
  <2> QED BY <1>3, <2>2 DEF NextName
<1>6. ASSUME NEW o \in Workers, Running(o)
      PROVE  Undisturbed(o)
  <2>1. PastMove(o) => MoveOf(o) \in MoveIds \ {m}
    BY <1>6, RunningShapes DEF LocksSound, TxSound, PastMove
  <2>2. PastMove(o) => moves'[MoveOf(o)] = moves[MoveOf(o)]
    BY <1>2, <2>1
  <2>3. PastMove(o) => \A x \in MoveIds : moves'[x].reverses = MoveOf(o) => moves[x].reverses = MoveOf(o)
    BY <1>2, <2>1, NullAssumption
  <2>4. \A x \in Posted' : moves'[x].name = tx[o].name => x \in Posted /\ moves[x].name = tx[o].name
    BY <1>4
  <2>5. LogIds' = LogIds
    BY <1>1 DEF LogIds
  <2> QED BY <1>1, <1>3, <1>5, <1>6, <2>2, <2>3, <2>4, <2>5 DEF Undisturbed
<1> QED BY <1>6, ShortFrame

\* Every transaction holds the lock of its move, which is a draft or posted.
LEMMA MoveLocked ==
  ASSUME LocksSound, NEW o \in Workers, PastMove(o)
  PROVE  Lock("move", MoveOf(o), "update") \in held[o] /\ moves[MoveOf(o)].state # "absent"
<1>1. MoveHeld(o) /\ InOrder(o)
  BY DEF LocksSound, TxSound
<1>2. Running(o) /\ Kind(o) # "ingest"
  BY DEF PastMove, Running, At
<1> QED BY <1>1, <1>2 DEF MoveHeld, InOrder, SameRow

LEMMA SaveStep ==
  ASSUME TypeOK, JournalsExist, LocksSound, NEW w \in Workers, UNCHANGED lockVars,
         SaveGranted(w), SaveDraft(w)
  PROVE  LocksSound'
<1> DEFINE row == workers[w].row
           id == workers[w].id
<1>1. PICK m \in (IF id = NoMove THEN Unused ELSE {id}) :
        moves' = [moves EXCEPT ![m] =
             DraftRow(row.journal, row.period, Stored(row.lines), @.version + 1,
                      IF @.createdBy # NoActor THEN @.createdBy ELSE row.createdBy)]
  BY DEF SaveDraft
<1>2. workers[w] \in SaveWorkers /\ Kind(w) = "save" /\ Goes(w, Idle) /\ UNCHANGED events
  BY WorkerShapes DEF SaveDraft, Doing, Kind
<1>3. m \in MoveIds
  BY <1>1, <1>2 DEF Unused, SaveWorkers
<1> DEFINE r == DraftRow(row.journal, row.period, Stored(row.lines), moves[m].version + 1,
                         IF moves[m].createdBy # NoActor THEN moves[m].createdBy
                         ELSE row.createdBy)
<1>4. moves' = [moves EXCEPT ![m] = r] /\ r.reverses = NoMove
  BY <1>1, <1>3 DEF TypeOK, DraftRow, AbsentRow
<1>5. \A o \in Workers : Running(o) => workers'[o] = workers[o]
  <2>1. ~ Running(w)
    BY <1>2, NotBegun
  <2> QED BY <1>2, <2>1, OneGoes
<1>6. \A o \in Workers : PastMove(o) => MoveOf(o) # m
  <2> SUFFICES ASSUME NEW o \in Workers, PastMove(o), MoveOf(o) = m
               PROVE  FALSE
    OBVIOUS
  <2>1. Lock("move", m, "update") \in held[o] /\ moves[m].state # "absent"
    BY MoveLocked
  <2>2. m = id
    BY <1>1, <2>1 DEF Unused
  <2>3. \A k \in held[o] : ~ Clash(Lock("move", id, "no_key_update"), k)
    BY DEF SaveGranted, FreeFor
  <2>4. Clash(Lock("move", id, "no_key_update"), Lock("move", id, "update"))
    BY DEF Clash, Lock, Conflict
  <2> QED BY <2>1, <2>2, <2>3, <2>4
<1>7. Redraft
  BY SaveDraftKind
<1> HIDE DEF r
<1> QED BY <1>2, <1>3, <1>4, <1>5, <1>6, <1>7, RedraftFrame

LEMMA DeleteStep ==
  ASSUME TypeOK, LocksSound, NEW m \in MoveIds, UNCHANGED lockVars,
         FreeFor({}, {Lock("move", m, "update")}), DeleteDraft(m)
  PROVE  LocksSound'
<1>1. /\ moves' = [moves EXCEPT ![m] = AbsentRow(moves[m].version)]
      /\ UNCHANGED <<events, workers>>
  BY DEF DeleteDraft, TypeOK
<1>2. AbsentRow(moves[m].version).reverses = NoMove
  BY DEF AbsentRow
<1>3. \A o \in Workers : PastMove(o) => MoveOf(o) # m
  <2> SUFFICES ASSUME NEW o \in Workers, PastMove(o), MoveOf(o) = m
               PROVE  FALSE
    OBVIOUS
  <2>1. Lock("move", m, "update") \in held[o]
    BY MoveLocked
  <2>2. Clash(Lock("move", m, "update"), Lock("move", m, "update"))
    BY DEF Clash, Lock, Conflict
  <2> QED BY <2>1, <2>2 DEF FreeFor
<1>4. Redraft
  BY DeleteDraftKind
<1>5. \A o \in Workers : Running(o) => workers'[o] = workers[o]
  BY <1>1
<1> QED BY <1>1, <1>2, <1>3, <1>4, <1>5, RedraftFrame

LEMMA PeriodChangeStep ==
  ASSUME TypeOK, LocksSound, NEW p \in Periods, NEW s, UNCHANGED lockVars,
         FreeFor({}, {Lock("period", p, "update")}), ChangePeriodState(p, s)
  PROVE  LocksSound'
<1>1. tx' = tx /\ held' = held /\ logs' = logs
  BY DEF lockVars
<1>2. /\ UNCHANGED <<moves, journals, events, workers>>
      /\ periods' = [periods EXCEPT ![p] = s]
  BY DEF ChangePeriodState
<1>3. ASSUME NEW o \in Workers, PastPeriod(o)
      PROVE  periods'[PeriodOf(o)] = periods[PeriodOf(o)]
  <2>1. Lock("period", PeriodOf(o), "share") \in held[o]
    BY <1>3 DEF LocksSound, TxSound, PeriodHeld
  <2>2. Clash(Lock("period", p, "update"), Lock("period", p, "share"))
    BY DEF Clash, Lock, Conflict
  <2>3. PeriodOf(o) # p
    BY <2>1, <2>2 DEF FreeFor
  <2> QED BY <1>2, <2>3 DEF TypeOK
<1>4. \A o \in Workers : Running(o) => Undisturbed(o)
  BY <1>1, <1>2, <1>3 DEF Undisturbed, NextName, LastPosted, PostedIn, Posted, LogIds
<1> QED BY <1>4, ShortFrame

\* The journal a transaction has locked was created before.
LEMMA JournalLocked ==
  ASSUME TypeOK, JournalsExist, LocksSound, NEW o \in Workers, PastJournal(o)
  PROVE  /\ Lock("journal", JournalOf(o), "update") \in held[o]
         /\ journals[JournalOf(o)].next > 0
<1>1. InOrder(o) /\ NumberHeld(o) /\ MoveHeld(o) /\ Running(o)
  BY DEF LocksSound, TxSound, PastJournal, Running
<1>2. Kind(o) \in {"post", "reverse", "ingest"}
  BY <1>1 DEF InOrder
<1>3. CASE Kind(o) = "post"
  <2>1. PastMove(o)
    BY <1>1, <1>3 DEF InOrder, Points, Common, At, PastJournal, PastMove
  <2>2. SameRow(workers[o].row, MoveOf(o)) /\ MoveOf(o) \in MoveIds
    BY <1>1, <1>3, <2>1, RunningShapes DEF MoveHeld
  <2>3. journals[moves[MoveOf(o)].journal].next > 0
    BY <2>2 DEF SameRow, JournalsExist
  <2>4. JournalOf(o) = moves[MoveOf(o)].journal
    BY <1>3, <2>2 DEF JournalOf, SameRow
  <2> QED BY <1>1, <2>3, <2>4 DEF NumberHeld
<1>4. CASE Kind(o) = "reverse"
  BY <1>1, <1>4 DEF NumberHeld, JournalOf, Kind, JournalsExist
<1>5. CASE Kind(o) = "ingest"
  BY <1>1, <1>5 DEF NumberHeld, JournalOf, Kind, JournalsExist
<1> QED BY <1>2, <1>3, <1>4, <1>5

LEMMA JournalStep ==
  ASSUME TypeOK, JournalsExist, LocksSound, NEW j \in Journals, NEW x, UNCHANGED lockVars,
         \/ CreateJournal(j, x)
         \/ \E b \in BOOLEAN :
              FreeFor({}, {Lock("journal", j, "no_key_update")}) /\ UpdateJournal(j, x, b)
  PROVE  LocksSound'
<1>1. tx' = tx /\ held' = held /\ logs' = logs
  BY DEF lockVars
<1>2. UNCHANGED <<moves, periods, events, workers>>
  BY DEF CreateJournal, UpdateJournal
<1>3. \A i \in Journals \ {j} : journals'[i] = journals[i]
  BY DEF CreateJournal, UpdateJournal, TypeOK
<1>4. ASSUME NEW o \in Workers, PastJournal(o)
      PROVE  JournalOf(o) # j
  <2>1. Lock("journal", JournalOf(o), "update") \in held[o] /\ journals[JournalOf(o)].next > 0
    BY <1>4, JournalLocked
  <2>2. CASE CreateJournal(j, x)
    BY <2>1, <2>2 DEF CreateJournal
  <2>3. CASE FreeFor({}, {Lock("journal", j, "no_key_update")})
    <3>1. Clash(Lock("journal", j, "no_key_update"), Lock("journal", j, "update"))
      BY DEF Clash, Lock, Conflict
    <3> QED BY <2>1, <2>3, <3>1 DEF FreeFor
  <2> QED BY <2>2, <2>3
<1>5. /\ \A i \in Journals : LastPosted(i)' = LastPosted(i)
      /\ \A i \in Journals \ {j} : NextName(i)' = NextName(i)
      /\ Posted' = Posted /\ LogIds' = LogIds
  BY <1>1, <1>2, <1>3 DEF NextName, LastPosted, PostedIn, Posted, LogIds
<1>6. \A o \in Workers : Running(o) => Undisturbed(o)
  BY <1>1, <1>2, <1>4, <1>5 DEF Undisturbed
<1> QED BY <1>6, ShortFrame

LEMMA ShortStep ==
  ASSUME TypeOK, JournalsExist, LocksSound, Short, UNCHANGED lockVars
  PROVE  Next /\ LocksSound'
<1>1. ASSUME NEW w \in Workers, Read(w)
      PROVE  Next /\ LocksSound'
  BY <1>1, ReadStep
<1>2. ASSUME NEW w \in Workers, SaveGranted(w), SaveDraft(w)
      PROVE  Next /\ LocksSound'
  BY <1>2, SaveStep DEF Next
<1>3. ASSUME NEW w \in Workers, ~ Running(w), Fail(w) \/ IngestFails(w)
      PROVE  Next /\ LocksSound'
  <2>1. /\ UNCHANGED <<moves, journals, periods, events>>
        /\ \E state : Goes(w, state)
    BY <1>3 DEF Fail, IngestFails
  <2>2. \A o \in Workers : Running(o) => workers'[o] = workers[o]
    BY <1>3, <2>1, OneGoes
  <2> QED BY <1>3, <2>1, <2>2, NothingMoves DEF Next
<1>4. ASSUME NEW m \in MoveIds, FreeFor({}, {Lock("move", m, "update")}), DeleteDraft(m)
      PROVE  Next /\ LocksSound'
  BY <1>4, DeleteStep DEF Next
<1>5. ASSUME NEW k \in Keys, AnswerKnown(k)
      PROVE  Next /\ LocksSound'
  BY <1>5, NothingMoves DEF Next, AnswerKnown
<1>6. ASSUME NEW p \in Periods, NEW s \in PeriodStates, FreeFor({}, {Lock("period", p, "update")}),
             ChangePeriodState(p, s)
      PROVE  Next /\ LocksSound'
  BY <1>6, PeriodChangeStep DEF Next
<1>7. ASSUME NEW j \in Journals, NEW x \in PrefixesOf[j],
             \/ CreateJournal(j, x)
             \/ \E b \in BOOLEAN :
                  FreeFor({}, {Lock("journal", j, "no_key_update")}) /\ UpdateJournal(j, x, b)
      PROVE  Next /\ LocksSound'
  BY <1>7, JournalStep DEF Next
<1> QED BY <1>1, <1>2, <1>3, <1>4, <1>5, <1>6, <1>7 DEF Short

-----------------------------------------------------------------------------
\* Every step of a transaction is a step of Ledger or none.

LockInv == TypeOK /\ JournalsExist /\ Sound /\ LocksSound

LEMMA LockInitInv == LockInit => LockInv
<1> SUFFICES ASSUME LockInit PROVE LockInv
  OBVIOUS
<1>1. TypeOK /\ JournalsExist /\ Sound
  BY InitType, JournalsExistInit, SoundInit DEF LockInit
<1>2. /\ tx = [w \in Workers |-> NoTx] /\ held = [w \in Workers |-> {}] /\ logs = {}
  BY DEF LockInit
<1>3. NoTx \in Txs
  BY DEF NoTx, Txs, NoName, Names, NoLog, Logs
<1>4. LockTypeOK /\ Exclusive /\ LogsEnd
  BY <1>2, <1>3 DEF LockTypeOK, Exclusive, LogsEnd, LogIds
<1>5. ASSUME NEW w \in Workers
      PROVE  TxSound(w)
  <2>1. tx[w] = NoTx /\ held[w] = {}
    BY <1>2
  <2>2. tx[w].at = "none" /\ tx[w].log = NoLog
    BY <2>1 DEF NoTx
  <2> QED BY <2>1, <2>2, NothingBehind DEF TxSound, InOrder, HeldOnly, PeriodHeld, MoveHeld,
             NumberHeld, LinkRead, NameHeld, AuditHeld, LogWritten, KeyHeld
<1> QED BY <1>1, <1>4, <1>5 DEF LockInv, LocksSound

LEMMA TransactionStep ==
  ASSUME LockInv, NEW w \in Workers, BeginTx(w) \/ Progress(w) \/ Rollback(w)
  PROVE  [Next]_vars /\ LocksSound'
<1>1. TypeOK /\ JournalsExist /\ Sound /\ LocksSound
  BY DEF LockInv
<1>2. CASE BeginTx(w)
  BY <1>1, <1>2, BeginStep
<1>3. CASE Rollback(w) \/ Refuse(w) \/ Victim(w)
  BY <1>1, <1>3, RollbackStep DEF Refuse, Victim
<1>4. CASE \/ LockPeriod(w) \/ InsertMove(w) \/ LockMove(w) \/ DrawNumber(w) \/ ReadLastHash(w)
           \/ TakeName(w) \/ LockAudit(w) \/ WriteLog(w) \/ InsertKey(w)
  BY <1>1, <1>4, StatementsExecute, ExecuteStep
<1>5. CASE CommitPost(w)
  BY <1>1, <1>5, CommitPostStep DEF Next
<1>6. CASE CommitReversal(w)
  BY <1>1, <1>6, CommitReversalStep DEF Next
<1>7. CASE CommitIngest(w)
  BY <1>1, <1>7, CommitIngestStep DEF Next
<1> QED BY <1>2, <1>3, <1>4, <1>5, <1>6, <1>7 DEF Progress

LEMMA LockStep == LockInv /\ [LockNext]_allVars => [Next]_vars /\ LockInv'
<1> SUFFICES ASSUME LockInv, [LockNext]_allVars PROVE [Next]_vars /\ LockInv'
  OBVIOUS
<1>1. [Next]_vars /\ LocksSound'
  <2>1. CASE Short /\ UNCHANGED lockVars
    BY <2>1, ShortStep DEF LockInv
  <2>2. CASE \E w \in Workers : BeginTx(w) \/ Progress(w) \/ Rollback(w)
    BY <2>2, TransactionStep
  <2>3. CASE UNCHANGED allVars
    <3>1. UNCHANGED vars /\ UNCHANGED lockVars
      BY <2>3 DEF allVars, vars, lockVars
    <3>2. LocksSound'
      BY <3>1, NothingMoves DEF LockInv, vars
    <3> QED BY <3>1, <3>2
  <2> QED BY <2>1, <2>2, <2>3 DEF LockNext
<1>2. TypeOK' /\ JournalsExist' /\ Sound'
  BY <1>1, StepType, JournalsExistStep, SoundStep DEF LockInv
<1> QED BY <1>1, <1>2 DEF LockInv

LEMMA LockInvAlways == LockSpec => []LockInv
<1> QED BY LockInitInv, LockStep, PTL DEF LockSpec

\* Statement by statement, the posting transactions do what Ledger says of them:
\* what holds of the tables there holds here (ValidateBalance, lockOpenPeriod,
\* GetNextSequenceWithLock, previousPostedMoveHash and the indexes, read at
\* READ COMMITTED).
THEOREM LocksImplementLedger == LockSpec => ImplementsLedger
<1>1. LockInit => Init
  BY DEF LockInit
<1>2. LockInv /\ [LockNext]_allVars => [Next]_vars
  BY LockStep
<1> QED BY <1>1, <1>2, LockInvAlways, PTL DEF LockSpec, ImplementsLedger, Spec

-----------------------------------------------------------------------------
\* The audit chain.

\* The log grows by what a transaction has written, when it commits.
LEMMA LogsGrow ==
  ASSUME LockInv, [LockNext]_allVars
  PROVE  \/ logs' = logs
         \/ \E w \in Workers : PastLog(w) /\ logs' = logs \cup {tx[w].log}
<1>1. CASE UNCHANGED lockVars \/ UNCHANGED allVars
  BY <1>1 DEF lockVars, allVars
<1>2. ASSUME NEW w \in Workers, BeginTx(w) \/ Rollback(w) \/ Refuse(w) \/ Victim(w)
      PROVE  logs' = logs
  BY <1>2 DEF BeginTx, Rollback, Refuse, Victim
<1>3. ASSUME NEW w \in Workers,
             \/ LockPeriod(w) \/ InsertMove(w) \/ LockMove(w) \/ DrawNumber(w) \/ ReadLastHash(w)
             \/ TakeName(w) \/ LockAudit(w) \/ WriteLog(w) \/ InsertKey(w)
      PROVE  logs' = logs
  BY <1>3 DEF LockPeriod, InsertMove, LockMove, DrawNumber, ReadLastHash, TakeName, LockAudit,
              WriteLog, InsertKey, Step
<1>4. ASSUME NEW w \in Workers, CommitPost(w) \/ CommitReversal(w) \/ CommitIngest(w)
      PROVE  PastLog(w) /\ logs' = logs \cup {tx[w].log}
  <2>1. PastLog(w)
    BY <1>4 DEF CommitPost, CommitReversal, CommitIngest, At, PastLog
  <2>2. logs' = logs \cup {tx[w].log}
    BY <1>4 DEF CommitPost, CommitReversal, CommitIngest, Publishes
  <2> QED BY <2>1, <2>2
<1> QED BY <1>1, <1>2, <1>3, <1>4 DEF LockNext, Progress

LEMMA LogChainStep ==
  ASSUME LockInv, [LockNext]_allVars, AuditChainUnbroken
  PROVE  AuditChainUnbroken'
<1>1. CASE logs' = logs
  BY <1>1 DEF AuditChainUnbroken, LogIds
<1>2. ASSUME NEW w \in Workers, PastLog(w), logs' = logs \cup {tx[w].log}
      PROVE  AuditChainUnbroken'
  <2>1. tx[w].log.previous = Latest(LogIds) /\ \A i \in LogIds : i < tx[w].log.id
    BY <1>2 DEF LockInv, LocksSound, TxSound, LogWritten
  <2>2. LogIds' = LogIds \cup {tx[w].log.id}
    BY <1>2 DEF LogIds
  <2>3. tx[w].log \in Logs /\ LogIds \subseteq Nat
    BY LogIdsNat DEF LockInv, LocksSound, LockTypeOK, Txs
  <2> DEFINE n == tx[w].log.id
  <2>4. n \in Nat
    BY <2>3 DEF Logs
  <2> SUFFICES ASSUME NEW ids, ids = LogIds', NEW l \in logs \cup {tx[w].log}
               PROVE  l.previous = Latest({i \in ids : i < l.id})
    BY <1>2 DEF AuditChainUnbroken
  <2>5. CASE l \in logs
    <3>1. l.id \in LogIds /\ l.previous = Latest({i \in LogIds : i < l.id})
      BY <2>5 DEF LogIds, AuditChainUnbroken
    <3>2. l.id \in Nat /\ l.id < n
      BY <2>1, <2>3, <3>1
    <3>3. ids = LogIds \cup {n} /\ ~ (n < l.id)
      BY <2>2, <2>4, <3>2
    <3>4. {i \in ids : i < l.id} = {i \in LogIds : i < l.id}
      BY <3>3
    <3> QED BY <3>1, <3>4
  <2>6. CASE l = tx[w].log
    <3>1. ids = LogIds \cup {n} /\ ~ (n < n) /\ \A i \in LogIds : i < n
      BY <2>1, <2>2, <2>4
    <3>2. {i \in ids : i < n} = LogIds
      BY <3>1
    <3> QED BY <2>1, <2>6, <3>2
  <2> QED BY <2>5, <2>6
<1> QED BY <1>1, <1>2, LogsGrow

\* Each row of the audit log names the row just before it (insertAuditLog).
THEOREM AuditNeverForks == LockSpec => []AuditChainUnbroken
<1>1. LockInit => AuditChainUnbroken
  BY DEF LockInit, AuditChainUnbroken
<1>2. LockInv /\ [LockNext]_allVars /\ AuditChainUnbroken => AuditChainUnbroken'
  BY LogChainStep
<1> QED BY <1>1, <1>2, LockInvAlways, PTL DEF LockSpec

-----------------------------------------------------------------------------
\* Deadlocks.

\* Every transaction asks for its locks in this order of tables; an insert takes a
\* weak lock of the journal before the strong one.
Level(w) ==
  CASE At(w, "move") -> 1
    [] At(w, "insert") -> 2
    [] At(w, "journal") -> 2
    [] At(w, "name") -> 3
    [] At(w, "audit") -> 4
    [] At(w, "key") -> 5
    [] OTHER -> 0

LEMMA Levels ==
  ASSUME NEW w
  PROVE  /\ At(w, "move") => Level(w) = 1
         /\ At(w, "insert") \/ At(w, "journal") => Level(w) = 2
         /\ At(w, "name") => Level(w) = 3
         /\ At(w, "audit") => Level(w) = 4
         /\ At(w, "key") => Level(w) = 5
         /\ Level(w) \in 0 .. 5
  BY DEF Level, At

\* What a transaction that is blocked asks for.
LEMMA BlockedAt ==
  ASSUME LocksSound, NEW w \in Workers, NEW o \in Workers, WaitsFor(w, o)
  PROVE  \E l \in Wants(w), k \in held[o] :
           /\ Clash(l, k)
           /\ \/ At(w, "move") /\ l.table = "move"
              \/ At(w, "insert") /\ l.table = "journal" /\ l.mode = "key_share"
              \/ At(w, "journal") /\ l.table = "journal" /\ l.row = JournalOf(w)
              \/ At(w, "name") /\ l.table = "name"
              \/ At(w, "audit") /\ l.table = "audit"
              \/ At(w, "key") /\ l.table = "key"
<1>1. PICK l \in Wants(w), k \in held[o] : Clash(l, k)
  BY DEF WaitsFor
<1>2. l.table = k.table /\ l.row = k.row /\ Conflict(l.mode, k.mode)
  BY <1>1 DEF Clash
<1>3. ~ (l.table = "period" /\ l.mode \in {"share", "key_share"})
  <2> SUFFICES ASSUME l.table = "period", l.mode \in {"share", "key_share"} PROVE FALSE
    OBVIOUS
  <2>1. HeldOnly(o)
    BY DEF LocksSound, TxSound
  <2>2. k.mode \in {"share", "key_share"}
    BY <1>2, <2>1 DEF HeldOnly
  <2> QED BY <1>2, <2>2 DEF Conflict
<1>4. CASE At(w, "period")
  <2>1. Wants(w) = {Lock("period", PeriodOf(w), "share")}
    BY <1>4 DEF Wants, At
  <2> QED BY <1>3, <2>1, LockFields
<1>5. CASE At(w, "insert")
  <2>1. Wants(w) = {Lock("journal", JournalOf(w), "key_share"), Lock("period", PeriodOf(w), "key_share")}
    BY <1>5 DEF Wants, At
  <2>2. l.table = "journal" /\ l.mode = "key_share"
    BY <1>3, <2>1, LockFields
  <2> QED BY <1>1, <1>5, <2>2
<1>6. CASE At(w, "move")
  <2>1. Wants(w) = {Lock("move", MoveOf(w), "update")}
    BY <1>6 DEF Wants, At
  <2> QED BY <1>1, <1>6, <2>1, LockFields
<1>7. CASE At(w, "journal")
  <2>1. Wants(w) = {Lock("journal", JournalOf(w), "update")}
    BY <1>7 DEF Wants, At
  <2> QED BY <1>1, <1>7, <2>1, LockFields
<1>8. CASE At(w, "name")
  <2>1. Wants(w) = {Lock("name", tx[w].name, "update")}
    BY <1>8 DEF Wants, At
  <2> QED BY <1>1, <1>8, <2>1, LockFields
<1>9. CASE At(w, "audit")
  <2>1. Wants(w) = {Lock("audit", "chain", "update")}
    BY <1>9 DEF Wants, At
  <2> QED BY <1>1, <1>9, <2>1, LockFields
<1>10. CASE At(w, "key")
  <2>1. Wants(w) = {Lock("key", workers[w].key, "update")}
    BY <1>10 DEF Wants, At
  <2> QED BY <1>1, <1>10, <2>1, LockFields
<1>11. CASE tx[w].at \notin {"period", "insert", "move", "journal", "name", "audit", "key"}
  <2>1. Wants(w) = {}
    BY <1>11 DEF Wants, At
  <2> QED BY <2>1
<1> QED BY <1>4, <1>5, <1>6, <1>7, <1>8, <1>9, <1>10, <1>11 DEF At

\* Whoever is blocked is blocked by a transaction further on, unless both stand
\* before the strong lock of one journal and the other has inserted a move.
LEMMA BlockedByLater ==
  ASSUME LocksSound, NEW w \in Workers, NEW o \in Workers, NEW p \in Workers,
         WaitsFor(w, o), WaitsFor(o, p)
  PROVE  \/ Level(o) > Level(w)
         \/ Level(o) = Level(w) /\ Kind(o) = "ingest" /\ JournalOf(o) = JournalOf(w)
<1>1. PICK l \in Wants(w), k \in held[o] :
           /\ Clash(l, k)
           /\ \/ At(w, "move") /\ l.table = "move"
              \/ At(w, "insert") /\ l.table = "journal" /\ l.mode = "key_share"
              \/ At(w, "journal") /\ l.table = "journal" /\ l.row = JournalOf(w)
              \/ At(w, "name") /\ l.table = "name"
              \/ At(w, "audit") /\ l.table = "audit"
              \/ At(w, "key") /\ l.table = "key"
  BY BlockedAt
<1>2. tx[o].at \in {"move", "insert", "journal", "name", "audit", "key"}
  <2>1. \/ At(o, "move") \/ At(o, "insert") \/ At(o, "journal") \/ At(o, "name")
        \/ At(o, "audit") \/ At(o, "key")
    BY BlockedAt
  <2> QED BY <2>1 DEF At
<1>3. HeldOnly(o) /\ k.table = l.table /\ k.row = l.row /\ Conflict(l.mode, k.mode)
  BY <1>1 DEF LocksSound, TxSound, Clash
<1>4. CASE At(w, "move") /\ l.table = "move"
  <2>1. PastMove(o)
    BY <1>3, <1>4 DEF HeldOnly
  <2>2. tx[o].at \in {"journal", "name", "audit"}
    BY <1>2, <2>1 DEF PastMove, At
  <2> QED BY <1>4, <2>2, Levels DEF At
<1>5. CASE l.table = "journal" /\ PastJournal(o) /\ (At(w, "insert") \/ At(w, "journal"))
  <2>1. tx[o].at \in {"name", "audit", "key"}
    BY <1>2, <1>5 DEF PastJournal
  <2> QED BY <1>5, <2>1, Levels DEF At
<1>6. CASE At(w, "insert") /\ l.table = "journal" /\ l.mode = "key_share" /\ ~ PastJournal(o)
  <2>1. k.mode = "key_share"
    BY <1>3, <1>6 DEF HeldOnly
  <2> QED BY <1>3, <1>6, <2>1 DEF Conflict
<1>7. CASE At(w, "journal") /\ l.table = "journal" /\ l.row = JournalOf(w) /\ ~ PastJournal(o)
  <2>1. k.row = JournalOf(o) /\ PastInsert(o)
    BY <1>3, <1>7 DEF HeldOnly
  <2>2. Kind(o) = "ingest" /\ At(o, "journal")
    BY <1>2, <1>7, <2>1 DEF PastInsert, PastJournal, At
  <2> QED BY <1>3, <1>7, <2>1, <2>2, Levels
<1>8. CASE At(w, "name") /\ l.table = "name"
  <2>1. PastName(o)
    BY <1>3, <1>8 DEF HeldOnly
  <2>2. tx[o].at \in {"audit", "key"}
    BY <1>2, <2>1 DEF PastName
  <2> QED BY <1>8, <2>2, Levels DEF At
<1>9. CASE At(w, "audit") /\ l.table = "audit"
  <2>1. PastAudit(o)
    BY <1>3, <1>9 DEF HeldOnly
  <2>2. tx[o].at = "key"
    BY <1>2, <2>1 DEF PastAudit
  <2> QED BY <1>9, <2>2, Levels DEF At
<1>10. CASE At(w, "key") /\ l.table = "key"
  <2>1. PastKey(o)
    BY <1>3, <1>10 DEF HeldOnly
  <2> QED BY <1>2, <2>1 DEF PastKey, At
<1> QED BY <1>1, <1>4, <1>5, <1>6, <1>7, <1>8, <1>9, <1>10

LEMMA DeadlockedIngests ==
  ASSUME LocksSound, NEW S \in SUBSET Workers, Deadlocked(S),
         \A T \in SUBSET S : Deadlocked(T) => T = S,
         NEW w \in S
  PROVE  /\ Kind(w) = "ingest"
         /\ \E o \in S : WaitsFor(w, o) /\ JournalOf(o) = JournalOf(w)
<1>1. \A x \in S : \E o \in S : WaitsFor(x, o)
  BY DEF Deadlocked
<1>2. \A x \in S : Level(x) \in 0 .. 5
  BY Levels
<1>3. \A x, o \in S : WaitsFor(x, o) =>
        \/ Level(o) > Level(x)
        \/ Level(o) = Level(x) /\ Kind(o) = "ingest" /\ JournalOf(o) = JournalOf(x)
  BY <1>1, BlockedByLater
<1>4. ASSUME NEW x \in S
      PROVE  \A o \in S : Level(o) >= Level(x)
  <2> DEFINE T == {o \in S : Level(o) >= Level(x)}
  <2>1. x \in T
    BY <1>2
  <2>2. ASSUME NEW y \in T
        PROVE  \E o \in T : WaitsFor(y, o)
    <3>1. PICK o \in S : WaitsFor(y, o)
      BY <1>1
    <3>2. Level(o) >= Level(y) /\ Level(y) >= Level(x)
      BY <1>2, <1>3, <3>1
    <3>3. Level(o) >= Level(x)
      BY <1>2, <3>2
    <3> QED BY <3>1, <3>3
  <2>3. Deadlocked(T)
    BY <2>1, <2>2 DEF Deadlocked
  <2>4. T = S
    BY <2>3
  <2> QED BY <2>4
<1>5. \A x, o \in S : WaitsFor(x, o) => Kind(o) = "ingest" /\ JournalOf(o) = JournalOf(x)
  <2> SUFFICES ASSUME NEW x \in S, NEW o \in S, WaitsFor(x, o)
               PROVE  Kind(o) = "ingest" /\ JournalOf(o) = JournalOf(x)
    OBVIOUS
  <2>1. Level(x) >= Level(o)
    BY <1>4
  <2> QED BY <1>2, <1>3, <2>1
<1> DEFINE I == {o \in S : Kind(o) = "ingest"}
<1>6. Deadlocked(I)
  BY <1>1, <1>5 DEF Deadlocked
<1>7. I = S
  BY <1>6
<1> QED BY <1>1, <1>5, <1>7

\* Only requests that post new moves into one journal block each other for good:
\* a post holds no lock another post, a reversal or a period change asks for
\* before it asks for the same one.
THEOREM IngestsAloneDeadlock == LockSpec => []OnlyIngestsDeadlock
<1>1. LockInv => OnlyIngestsDeadlock
  <2> SUFFICES ASSUME LocksSound, NEW w \in Workers, InDeadlock(w)
               PROVE  /\ Kind(w) = "ingest"
                      /\ \E o \in Workers : WaitsFor(w, o) /\ InDeadlock(o) /\ JournalOf(o) = JournalOf(w)
    BY DEF LockInv, OnlyIngestsDeadlock
  <2>1. PICK S \in SUBSET Workers :
          w \in S /\ Deadlocked(S) /\ \A T \in SUBSET S : Deadlocked(T) => T = S
    BY DEF InDeadlock
  <2>2. /\ Kind(w) = "ingest"
        /\ \E o \in S : WaitsFor(w, o) /\ JournalOf(o) = JournalOf(w)
    BY <2>1, DeadlockedIngests
  <2>3. \A o \in S : InDeadlock(o)
    BY <2>1 DEF InDeadlock
  <2> QED BY <2>1, <2>2, <2>3
<1> QED BY <1>1, LockInvAlways, PTL

\* What is proved of the tables for postings that happen at once holds for postings
\* that interleave statement by statement.
THEOREM LedgerHoldsUnderLocks ==
  LockSpec => /\ [](GaplessNumbering /\ PostedBalanced /\ MakerChecker)
              /\ [](ReversedOnce /\ OneMovePerKey /\ AuditComplete)
              /\ PostedImmutable /\ ClosedPeriodSealed /\ PostsWhatWasSaved
<1> QED BY LocksImplementLedger, NumberingIsGapless, PostedEntriesBalance, LargeMovesSeenTwice,
           ReversalsAreExact, KeysNameOneMove, AuditTellsAll, PostedNeverChanges,
           ClosedPeriodsStaySealed, PostedAsSaved, PTL DEF ImplementsLedger
=============================================================================
