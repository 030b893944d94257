--------------------------- MODULE ServerProcess ---------------------------
(***************************************************************************)
(* The life of the server: App.Bootstrap and App.Run, Server.Run, the      *)
(* worker manager, the readiness flag and the migrations, for several      *)
(* replicas of one database.  A replica may crash at any moment and be     *)
(* started again.  golang-migrate marks the version dirty before it runs   *)
(* a migration and clean after it, under a lock of its session; PostgreSQL *)
(* gives the lock back when the session ends.                              *)
(***************************************************************************)
EXTENDS Naturals, FiniteSets

CONSTANTS
  Replicas,
  Drivers,       \* what the configuration may ask for: "postgres", "memory"
  Migrations,    \* number of files in migrations/
  MaxRequests,   \* bound on the requests a replica serves at the same time
  MaxCrashes,    \* bound on the crashes
  Nobody

ASSUME ServerAssumption ==
  Migrations \in Nat \ {0} /\ MaxRequests \in Nat /\ Nobody \notin Replicas

VARIABLES
  proc,      \* the replicas
  schema,    \* schema_migrations
  migrator,  \* the session that holds the migration lock
  crashes

vars == <<proc, schema, migrator, crashes>>

Phases ==
  {"down", "connect", "lock", "migrate", "workers", "wire", "bind", "starting", "serving",
   "draining", "shutdown", "stop", "stopping", "close", "log", "failed"}
Resources == {"log", "pool", "worker", "listener"}

\* driver: of the configuration; open: what is open; requests: being handled, and busy
\* those with a connection; cut: their connections to the client are closed; clean:
\* the last life ended with exit code 0.
Down == [phase |-> "down", driver |-> "memory", open |-> {}, ready |-> FALSE,
         signal |-> FALSE, requests |-> 0, busy |-> 0, cut |-> FALSE, clean |-> FALSE]

TypeOK ==
  /\ proc \in [Replicas ->
       [phase : Phases, driver : Drivers \cup {"memory"}, open : SUBSET Resources,
        ready : BOOLEAN, signal : BOOLEAN, requests : 0 .. MaxRequests,
        busy : 0 .. MaxRequests, cut : BOOLEAN, clean : BOOLEAN]]
  /\ \A p \in Replicas : proc[p].busy <= proc[p].requests
  /\ schema \in [version : 0 .. Migrations, dirty : BOOLEAN]
  /\ migrator \in Replicas \cup {Nobody}
  /\ migrator # Nobody => proc[migrator].phase = "migrate"

Init ==
  /\ proc = [p \in Replicas |-> Down] /\ schema = [version |-> 0, dirty |-> FALSE]
  /\ migrator = Nobody /\ crashes = 0

In(p, phase) == proc[p].phase = phase
Opened(p, r) == r \in proc[p].open
Becomes(p, record) == proc' = [proc EXCEPT ![p] = record]
Database == UNCHANGED <<schema, migrator, crashes>>

\* To the next phase, with what was opened.
Proceeds(p, phase, opened) ==
  Becomes(p, [proc[p] EXCEPT !.phase = phase, !.open = @ \cup opened])

-----------------------------------------------------------------------------
\* Bootstrap.

\* Engine.Load, which may fail, and newLogger.
LoadConfiguration(p) ==
  /\ In(p, "down") /\ Database
  /\ \/ \E driver \in Drivers :
          Becomes(p, [Down EXCEPT !.phase = "connect", !.driver = driver, !.open = {"log"}])
     \/ Becomes(p, [Down EXCEPT !.phase = "failed"])

\* Any error of Bootstrap: the deferred function closes the log, and nothing else.
Fail(p) == Becomes(p, [proc[p] EXCEPT !.phase = "failed", !.open = @ \ {"log"}])

\* NewPool pings the database and closes the pool when that fails.
Connect(p) ==
  /\ In(p, "connect") /\ Database
  /\ IF proc[p].driver = "postgres" THEN Proceeds(p, "lock", {"pool"}) \/ Fail(p)
     ELSE Proceeds(p, "workers", {})

\* A dirty schema that is up to date counts as nothing to do.
LockSchemaBug(p) ==
  /\ In(p, "lock") /\ UNCHANGED <<schema, crashes>>
  /\ \/ /\ migrator = Nobody /\ ~schema.dirty
        /\ migrator' = p /\ Proceeds(p, "migrate", {})
     \/ /\ schema = [version |-> Migrations, dirty |-> TRUE]
        /\ migrator' = migrator /\ Proceeds(p, "workers", {})
     \/ /\ migrator # Nobody \/ schema.dirty
        /\ migrator' = migrator /\ Fail(p)

\* m.Up: takes the lock, or gives up waiting; refuses a dirty schema.
LockSchema(p) ==
  /\ In(p, "lock") /\ UNCHANGED <<schema, crashes>>
  /\ \/ /\ migrator = Nobody /\ ~schema.dirty
        /\ migrator' = p /\ Proceeds(p, "migrate", {})
     \/ /\ migrator # Nobody \/ schema.dirty
        /\ migrator' = migrator /\ Fail(p)

BeginMigration(p) ==
  /\ In(p, "migrate") /\ ~schema.dirty /\ schema.version < Migrations
  /\ schema' = [version |-> schema.version + 1, dirty |-> TRUE]
  /\ UNCHANGED <<proc, migrator, crashes>>

\* The file ran, or its transaction was rolled back and the version stays dirty.
EndMigration(p) ==
  /\ In(p, "migrate") /\ schema.dirty /\ UNCHANGED crashes
  /\ \/ /\ schema' = [schema EXCEPT !.dirty = FALSE] /\ UNCHANGED <<proc, migrator>>
     \/ Fail(p) /\ migrator' = Nobody /\ schema' = schema

EndMigrations(p) ==
  /\ In(p, "migrate") /\ ~schema.dirty /\ schema.version = Migrations
  /\ migrator' = Nobody /\ Proceeds(p, "workers", {}) /\ UNCHANGED <<schema, crashes>>

\* The pool monitor is the only worker.
StartWorkers(p) ==
  /\ In(p, "workers") /\ Database
  /\ Proceeds(p, "wire", IF Opened(p, "pool") THEN {"worker"} ELSE {})

\* The maker-checker threshold is parsed again and the use cases are built.
Wire(p) ==
  /\ In(p, "wire") /\ Database
  /\ Proceeds(p, "bind", {}) \/ (Opened(p, "pool") /\ Fail(p))

-----------------------------------------------------------------------------
\* Server.Run.

\* Bind; when it fails Run returns at once.
BindListener(p) ==
  /\ In(p, "bind") /\ Database
  /\ \/ Proceeds(p, "starting", {"listener"})
     \/ Becomes(p, [proc[p] EXCEPT !.phase = "failed"])

MarkReady(p) ==
  /\ In(p, "starting") /\ Database
  /\ Becomes(p, [proc[p] EXCEPT !.phase = "serving", !.ready = TRUE])

\* Serve fails: the listener is closed.
ServeFails(p) ==
  /\ In(p, "starting") \/ In(p, "serving")
  /\ Opened(p, "listener") /\ Database
  /\ Becomes(p, [proc[p] EXCEPT !.open = @ \ {"listener"}])

\* A signal or a fatal error ends the select.
Drain(p) ==
  /\ In(p, "serving") /\ (proc[p].signal \/ ~Opened(p, "listener")) /\ Database
  /\ Becomes(p, [proc[p] EXCEPT !.phase = "draining", !.ready = FALSE])

\* Shutdown closes the listener first.
BeginShutdown(p) ==
  /\ In(p, "draining") /\ Database
  /\ Becomes(p, [proc[p] EXCEPT !.phase = "shutdown", !.open = @ \ {"listener"}])

\* All requests are done, or the time is over: then Close cuts the connections and does
\* not wait for the handlers.
EndShutdown(p) ==
  /\ In(p, "shutdown") /\ Database
  /\ Becomes(p, [proc[p] EXCEPT !.phase = "stop", !.cut = (proc[p].requests > 0)])

\* StopAll cancels the workers and does not wait for them.
StopAllBug(p) == In(p, "stop") /\ Database /\ Becomes(p, [proc[p] EXCEPT !.phase = "close"])

\* StopAll cancels the workers.
StopAll(p) == In(p, "stop") /\ Database /\ Becomes(p, [proc[p] EXCEPT !.phase = "stopping"])

WorkersStopped(p) ==
  /\ In(p, "stopping") /\ ~Opened(p, "worker") /\ Database
  /\ Becomes(p, [proc[p] EXCEPT !.phase = "close"])

\* The pool is closed only when no request is left.
CloseResourcesBug(p) ==
  /\ In(p, "close") /\ proc[p].requests = 0 /\ Database
  /\ Becomes(p, [proc[p] EXCEPT !.phase = "log", !.open = @ \ {"pool"}])

\* pgxpool.Close waits until every connection is given back.
CloseResources(p) ==
  /\ In(p, "close") /\ proc[p].busy = 0 /\ Database
  /\ Becomes(p, [proc[p] EXCEPT !.phase = "log", !.open = @ \ {"pool"}])

\* App.Run closes the log and main returns; or main exits with code 1, which frees
\* whatever was left open.
Exit(p) ==
  /\ In(p, "log") \/ In(p, "failed")
  /\ Database
  /\ Becomes(p, [Down EXCEPT !.clean = In(p, "log"), !.open =
                   IF In(p, "log") THEN proc[p].open \ {"log"} ELSE {}])

-----------------------------------------------------------------------------
\* What happens at the same time.

\* The listener takes requests from the moment it is bound until Shutdown.
Accept(p) ==
  /\ Opened(p, "listener") /\ proc[p].requests < MaxRequests /\ ~In(p, "bind") /\ Database
  /\ Becomes(p, [proc[p] EXCEPT !.requests = @ + 1])

\* A handler asks the pool for a connection; one whose client is gone is refused.
Acquire(p) ==
  /\ Opened(p, "pool") /\ ~In(p, "close") /\ ~proc[p].cut /\ Database
  /\ proc[p].busy < proc[p].requests
  /\ Becomes(p, [proc[p] EXCEPT !.busy = @ + 1])

Release(p) ==
  /\ proc[p].busy > 0 /\ Database
  /\ Becomes(p, [proc[p] EXCEPT !.busy = @ - 1])

\* A handler returns without giving its connection back.
RespondBug(p) ==
  /\ proc[p].requests > 0 /\ Database
  /\ Becomes(p, [proc[p] EXCEPT !.requests = @ - 1])

Respond(p) ==
  /\ proc[p].requests > proc[p].busy /\ Database
  /\ Becomes(p, [proc[p] EXCEPT !.requests = @ - 1])

\* The monitor returns when it is cancelled; a panic is recovered and ends it for good.
WorkerReturns(p) ==
  /\ Opened(p, "worker") /\ Database
  /\ Becomes(p, [proc[p] EXCEPT !.open = @ \ {"worker"}])

\* SIGTERM or SIGINT; before Run listens to them they kill the process, see Crash.
Signal(p) ==
  /\ proc[p].phase \in {"bind", "starting", "serving"} /\ ~proc[p].signal /\ Database
  /\ Becomes(p, [proc[p] EXCEPT !.signal = TRUE])

Crash(p) ==
  /\ ~In(p, "down") /\ crashes < MaxCrashes /\ crashes' = crashes + 1
  /\ Becomes(p, Down) /\ schema' = schema
  /\ migrator' = IF migrator = p THEN Nobody ELSE migrator

Step(p) ==
  \/ Connect(p) \/ LockSchema(p) \/ BeginMigration(p) \/ EndMigration(p)
  \/ EndMigrations(p) \/ StartWorkers(p) \/ Wire(p) \/ BindListener(p) \/ MarkReady(p)
  \/ Drain(p) \/ BeginShutdown(p) \/ EndShutdown(p) \/ StopAll(p) \/ WorkersStopped(p)
  \/ CloseResources(p) \/ Exit(p)

Next ==
  \E p \in Replicas :
    \/ LoadConfiguration(p) \/ Step(p) \/ ServeFails(p) \/ Accept(p) \/ Acquire(p)
    \/ Release(p) \/ Respond(p) \/ WorkerReturns(p) \/ Signal(p) \/ Crash(p)

Spec == Init /\ [][Next]_vars

\* The process runs; a cancelled worker returns and the queries of a cut connection are
\* cancelled.  Nothing else makes a handler come to an end.
Fairness ==
  \A p \in Replicas :
    /\ WF_vars(Step(p))
    /\ WF_vars(In(p, "stopping") /\ WorkerReturns(p))
    /\ WF_vars(proc[p].cut /\ Release(p))

FairSpec == Spec /\ Fairness

-----------------------------------------------------------------------------
\* Safety and liveness.

\* HandleReadiness finds the flag set; it can be asked while the listener is open.
AnswersReady(p) == proc[p].ready /\ Opened(p, "listener")

\* Who answers a readiness probe with ready has what requests need: its pool, and the
\* whole schema.
ReadyIsAble ==
  \A p \in Replicas :
    AnswersReady(p) /\ proc[p].driver = "postgres" =>
      Opened(p, "pool") /\ schema = [version |-> Migrations, dirty |-> FALSE]

\* Workers "are guaranteed to stop before resources (e.g. connection pools) are closed",
\* and a handler that was cut keeps its connection until it gives it back.  A process
\* that ends with code 0 has closed everything it opened, on every path.
PoolOutlivesUsers ==
  \A p \in Replicas :
    /\ Opened(p, "worker") \/ proc[p].busy > 0 => Opened(p, "pool")
    /\ proc[p].clean => proc[p].open = {}

\* A replica that was told to stop stops, whatever its handlers and worker are doing.
StopsOnSignal ==
  \A p \in Replicas : proc[p].signal ~> In(p, "down")
=============================================================================
