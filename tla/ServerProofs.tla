---------------------------- MODULE ServerProofs ----------------------------
(***************************************************************************)
(* Theorems about ServerProcess, for any number of replicas, migrations,   *)
(* requests and crashes.                                                   *)
(***************************************************************************)
EXTENDS ServerProcess, TLAPS

State ==
  [phase : Phases, driver : Drivers \cup {"memory"}, open : SUBSET Resources,
   ready : BOOLEAN, signal : BOOLEAN, requests : 0 .. MaxRequests,
   busy : 0 .. MaxRequests, cut : BOOLEAN, clean : BOOLEAN]

\* The phases after the migrations until the drain.
Wired == {"workers", "wire", "bind", "starting", "serving"}

\* What one replica guarantees by itself.
Sane(r) ==
  /\ r \in State /\ r.busy <= r.requests
  /\ r.clean => r.open = {}
  /\ r.phase = "down" => r.open = {} /\ r.requests = 0
  /\ r.phase \in {"shutdown", "stop", "stopping", "close", "log"} => "listener" \notin r.open
  /\ r.phase \in {"close", "log"} => "worker" \notin r.open
  /\ r.phase = "log" => "pool" \notin r.open
  /\ "worker" \in r.open \/ r.busy > 0 => "pool" \in r.open
  /\ r.phase \in {"lock", "migrate"} => r.driver = "postgres"
  /\ r.driver = "postgres" /\ r.phase \in {"lock", "migrate"} \cup Wired => "pool" \in r.open
  /\ r.phase = "connect" => r.open = {"log"}
  /\ r.ready => r.phase = "serving"
  /\ r.clean => r.phase = "down"

Complete == schema = [version |-> Migrations, dirty |-> FALSE]

\* The migrations are complete once a replica with a database got past them.
IInv ==
  /\ proc \in [Replicas -> State]
  /\ \A p \in Replicas : Sane(proc[p])
  /\ schema \in [version : 0 .. Migrations, dirty : BOOLEAN]
  /\ migrator \in Replicas \cup {Nobody}
  /\ migrator # Nobody => proc[migrator].phase = "migrate"
  /\ \A p \in Replicas : proc[p].driver = "postgres" /\ proc[p].phase \in Wired => Complete

LEMMA DownSane == Sane(Down) /\ Down.phase = "down" /\ Down.open = {}
  BY ServerAssumption DEF Sane, Down, State, Phases, Resources, Wired

LEMMA InitIInv == Init => IInv
<1> SUFFICES ASSUME Init PROVE IInv
  OBVIOUS
<1>1. /\ proc = [p \in Replicas |-> Down] /\ schema = [version |-> 0, dirty |-> FALSE]
      /\ migrator = Nobody
  BY DEF Init
<1>2. Down \in State /\ Down.phase \notin Wired
  BY DownSane DEF Sane, Wired
<1>3. schema \in [version : 0 .. Migrations, dirty : BOOLEAN]
  BY <1>1, ServerAssumption
<1> QED BY <1>1, <1>2, <1>3, DownSane DEF IInv

-----------------------------------------------------------------------------
\* A step of one replica that leaves the migrations alone.

LEMMA ReplicaStep ==
  ASSUME IInv, NEW p \in Replicas, NEW r, Sane(r), Becomes(p, r), UNCHANGED schema,
         migrator' \in Replicas \cup {Nobody},
         migrator' # Nobody => IF migrator' = p THEN r.phase = "migrate"
                               ELSE migrator' = migrator,
         r.driver = "postgres" /\ r.phase \in Wired => Complete
  PROVE  IInv'
<1>1. r \in State
  BY DEF Sane
<1>2. proc' \in [Replicas -> State]
  BY <1>1 DEF IInv, Becomes
<1>3. \A q \in Replicas : proc'[q] = IF q = p THEN r ELSE proc[q]
  BY DEF IInv, Becomes
<1>4. \A q \in Replicas : Sane(proc'[q])
  BY <1>3 DEF IInv
<1>5. migrator' # Nobody => proc'[migrator'].phase = "migrate"
  BY <1>3 DEF IInv
<1>6. \A q \in Replicas : proc'[q].driver = "postgres" /\ proc'[q].phase \in Wired => Complete'
  BY <1>3 DEF IInv, Complete
<1> QED BY <1>2, <1>4, <1>5, <1>6 DEF IInv, Sane

\* The same when the database is not touched at all.
LEMMA PlainStep ==
  ASSUME IInv, NEW p \in Replicas, NEW r, Sane(r), Becomes(p, r), Database,
         proc[p].phase = "migrate" => r.phase = "migrate",
         r.driver = "postgres" /\ r.phase \in Wired => Complete
  PROVE  IInv'
  BY ReplicaStep DEF IInv, Database

-----------------------------------------------------------------------------
\* What the steps make of a sane replica.

LEMMA FailSane ==
  ASSUME NEW r, Sane(r), r.phase \notin {"down", "serving"},
         NEW f, f = [r EXCEPT !.phase = "failed", !.open = @ \ {"log"}]
  PROVE  Sane(f) /\ f.phase = "failed"
  BY DEF Sane, State, Phases, Resources, Wired

LEMMA BootSane ==
  ASSUME NEW r, Sane(r),
         NEW f,
         \/ /\ r.phase = "lock"
            /\ f = [r EXCEPT !.phase = "migrate", !.open = @ \cup {}]
         \/ /\ r.phase = "migrate"
            /\ f = [r EXCEPT !.phase = "workers", !.open = @ \cup {}]
         \/ /\ r.phase = "connect" /\ r.driver = "postgres"
            /\ f = [r EXCEPT !.phase = "lock", !.open = @ \cup {"pool"}]
         \/ /\ r.phase = "connect" /\ r.driver # "postgres"
            /\ f = [r EXCEPT !.phase = "workers", !.open = @ \cup {}]
         \/ /\ r.phase = "workers" /\ "pool" \in r.open
            /\ f = [r EXCEPT !.phase = "wire", !.open = @ \cup {"worker"}]
         \/ /\ r.phase = "workers"
            /\ f = [r EXCEPT !.phase = "wire", !.open = @ \cup {}]
         \/ /\ r.phase = "wire"
            /\ f = [r EXCEPT !.phase = "bind", !.open = @ \cup {}]
         \/ /\ r.phase = "bind"
            /\ f = [r EXCEPT !.phase = "starting", !.open = @ \cup {"listener"}]
         \/ /\ r.phase = "bind"
            /\ f = [r EXCEPT !.phase = "failed"]
         \/ /\ r.phase = "starting"
            /\ f = [r EXCEPT !.phase = "serving", !.ready = TRUE]
  PROVE  Sane(f) /\ f.driver = r.driver
<1> USE DEF Sane, State, Phases, Resources, Wired
<1>1. CASE /\ r.phase = "lock"
           /\ f = [r EXCEPT !.phase = "migrate", !.open = @ \cup {}]
  BY <1>1
<1>2. CASE /\ r.phase = "migrate"
           /\ f = [r EXCEPT !.phase = "workers", !.open = @ \cup {}]
  BY <1>2
<1>3. CASE /\ r.phase = "connect" /\ r.driver = "postgres"
           /\ f = [r EXCEPT !.phase = "lock", !.open = @ \cup {"pool"}]
  BY <1>3
<1>4. CASE /\ r.phase = "connect" /\ r.driver # "postgres"
           /\ f = [r EXCEPT !.phase = "workers", !.open = @ \cup {}]
  BY <1>4
<1>5. CASE /\ r.phase = "workers" /\ "pool" \in r.open
           /\ f = [r EXCEPT !.phase = "wire", !.open = @ \cup {"worker"}]
  BY <1>5
<1>6. CASE /\ r.phase = "workers"
           /\ f = [r EXCEPT !.phase = "wire", !.open = @ \cup {}]
  BY <1>6
<1>7. CASE /\ r.phase = "wire"
           /\ f = [r EXCEPT !.phase = "bind", !.open = @ \cup {}]
  BY <1>7
<1>8. CASE /\ r.phase = "bind"
           /\ f = [r EXCEPT !.phase = "starting", !.open = @ \cup {"listener"}]
  BY <1>8
<1>9. CASE /\ r.phase = "bind"
           /\ f = [r EXCEPT !.phase = "failed"]
  BY <1>9
<1>10. CASE /\ r.phase = "starting"
           /\ f = [r EXCEPT !.phase = "serving", !.ready = TRUE]
  BY <1>10
<1> QED BY <1>1, <1>2, <1>3, <1>4, <1>5, <1>6, <1>7, <1>8, <1>9, <1>10

LEMMA StopSane ==
  ASSUME NEW r, Sane(r),
         NEW f,
         \/ /\ r.phase = "serving"
            /\ f = [r EXCEPT !.phase = "draining", !.ready = FALSE]
         \/ /\ r.phase = "draining"
            /\ f = [r EXCEPT !.phase = "shutdown", !.open = @ \ {"listener"}]
         \/ r.phase = "shutdown" /\ f = [r EXCEPT !.phase = "stop", !.cut = (r.requests > 0)]
         \/ r.phase = "stop" /\ f = [r EXCEPT !.phase = "stopping"]
         \/ r.phase = "stopping" /\ "worker" \notin r.open /\ f = [r EXCEPT !.phase = "close"]
         \/ /\ r.phase = "close" /\ r.busy = 0
            /\ f = [r EXCEPT !.phase = "log", !.open = @ \ {"pool"}]
  PROVE  Sane(f) /\ f.phase \notin Wired
<1> USE DEF Sane, State, Phases, Resources, Wired
<1>1. CASE r.phase = "serving" /\ f = [r EXCEPT !.phase = "draining", !.ready = FALSE]
  BY <1>1
<1>2. CASE r.phase = "draining" /\ f = [r EXCEPT !.phase = "shutdown", !.open = @ \ {"listener"}]
  BY <1>2
<1>3. CASE r.phase = "shutdown" /\ f = [r EXCEPT !.phase = "stop", !.cut = (r.requests > 0)]
  <2>1. (r.requests > 0) \in BOOLEAN
    OBVIOUS
  <2> DEFINE cut == (r.requests > 0)
  <2> HIDE DEF cut
  <2>2. cut \in BOOLEAN /\ f = [r EXCEPT !.phase = "stop", !.cut = cut]
    BY <1>3, <2>1 DEF cut
  <2> QED BY <1>3, <2>2
<1>4. CASE r.phase = "stop" /\ f = [r EXCEPT !.phase = "stopping"]
  BY <1>4
<1>5. CASE r.phase = "stopping" /\ "worker" \notin r.open /\ f = [r EXCEPT !.phase = "close"]
  BY <1>5
<1>6. CASE r.phase = "close" /\ r.busy = 0
           /\ f = [r EXCEPT !.phase = "log", !.open = @ \ {"pool"}]
  <2>1. f \in State /\ f.phase = "log" /\ f.open = r.open \ {"pool"}
    BY <1>6
  <2>2. /\ f.busy = 0 /\ f.requests = r.requests /\ f.ready = r.ready /\ f.clean = r.clean
        /\ ~r.clean /\ ~r.ready /\ "worker" \notin r.open /\ "listener" \notin r.open
    BY <1>6
  <2> QED BY <2>1, <2>2
<1> QED BY <1>1, <1>2, <1>3, <1>4, <1>5, <1>6

LEMMA ExitSane ==
  ASSUME NEW r, Sane(r), r.phase \in {"log", "failed"},
         NEW f, f = [Down EXCEPT !.clean = (r.phase = "log"),
                                 !.open = IF r.phase = "log" THEN r.open \ {"log"} ELSE {}]
  PROVE  Sane(f) /\ f.phase = "down"
<1>1. r.phase = "log" => r.open \ {"log"} = {}
  BY DEF Sane, State, Resources
<1>2. PICK clean \in BOOLEAN : clean = (r.phase = "log")
  OBVIOUS
<1>3. f = [Down EXCEPT !.clean = clean, !.open = {}]
  BY <1>1, <1>2
<1>4. /\ f.phase = "down" /\ f.driver = "memory" /\ f.open = {} /\ f.requests = 0
      /\ f.busy = 0 /\ f.ready = FALSE /\ f \in State
  BY <1>3, DownSane DEF Sane, State, Down
<1> QED BY <1>4, ServerAssumption DEF Sane, Wired

LEMMA ServingSane ==
  ASSUME NEW r, Sane(r),
         NEW f,
         \/ "listener" \in r.open /\ f = [r EXCEPT !.open = @ \ {"listener"}]
         \/ "worker" \in r.open /\ f = [r EXCEPT !.open = @ \ {"worker"}]
         \/ r.phase # "down" /\ f = [r EXCEPT !.signal = TRUE]
         \/ "listener" \in r.open /\ r.requests < MaxRequests /\ f = [r EXCEPT !.requests = @ + 1]
         \/ "pool" \in r.open /\ r.busy < r.requests /\ f = [r EXCEPT !.busy = @ + 1]
         \/ r.busy > 0 /\ f = [r EXCEPT !.busy = @ - 1]
         \/ r.requests > r.busy /\ f = [r EXCEPT !.requests = @ - 1]
  PROVE  Sane(f) /\ f.phase = r.phase /\ f.driver = r.driver
<1> USE ServerAssumption DEF Sane, State, Phases, Resources, Wired
<1>1. CASE "listener" \in r.open /\ f = [r EXCEPT !.open = @ \ {"listener"}]
  BY <1>1
<1>2. CASE "worker" \in r.open /\ f = [r EXCEPT !.open = @ \ {"worker"}]
  BY <1>2
<1>3. CASE r.phase # "down" /\ f = [r EXCEPT !.signal = TRUE]
  BY <1>3
<1>4. CASE "listener" \in r.open /\ r.requests < MaxRequests
           /\ f = [r EXCEPT !.requests = @ + 1]
  BY <1>4
<1>5. CASE "pool" \in r.open /\ r.busy < r.requests /\ f = [r EXCEPT !.busy = @ + 1]
  BY <1>5
<1>6. CASE r.busy > 0 /\ f = [r EXCEPT !.busy = @ - 1]
  BY <1>6
<1>7. CASE r.requests > r.busy /\ f = [r EXCEPT !.requests = @ - 1]
  BY <1>7
<1> QED BY <1>1, <1>2, <1>3, <1>4, <1>5, <1>6, <1>7

-----------------------------------------------------------------------------
\* The steps of a replica that the database does not notice.

LEMMA StopKeeps ==
  ASSUME IInv, NEW p \in Replicas,
         \/ Drain(p) \/ BeginShutdown(p) \/ EndShutdown(p) \/ StopAll(p) \/ WorkersStopped(p)
         \/ CloseResources(p) \/ Exit(p)
  PROVE  IInv'
<1>1. Sane(proc[p]) /\ Database /\ proc[p].phase # "migrate"
  BY DEF IInv, Drain, BeginShutdown, EndShutdown, StopAll, WorkersStopped, CloseResources,
         Exit, In
<1>2. CASE Exit(p)
  <2> DEFINE r == proc[p]
             f == [Down EXCEPT !.clean = (r.phase = "log"),
                               !.open = IF r.phase = "log" THEN r.open \ {"log"} ELSE {}]
  <2>1. r.phase \in {"log", "failed"} /\ Becomes(p, f)
    BY <1>2 DEF Exit, In
  <2>2. Sane(r)
    BY <1>1
  <2> HIDE DEF r
  <2>3. \A g : g = f => Sane(g) /\ g.phase = "down"
    BY <2>1, <2>2, ExitSane
  <2>4. Sane(f) /\ f.phase = "down"
    BY <2>3
  <2> HIDE DEF f
  <2> QED BY <1>1, <2>1, <2>4, PlainStep DEF Wired, r
<1>3. CASE Drain(p)
  BY <1>1, <1>3, StopSane, PlainStep DEF Drain, In
<1>4. CASE BeginShutdown(p)
  BY <1>1, <1>4, StopSane, PlainStep DEF BeginShutdown, In
<1>5. CASE EndShutdown(p)
  BY <1>1, <1>5, StopSane, PlainStep DEF EndShutdown, In
<1>6. CASE StopAll(p)
  BY <1>1, <1>6, StopSane, PlainStep DEF StopAll, In
<1>7. CASE WorkersStopped(p)
  BY <1>1, <1>7, StopSane, PlainStep DEF WorkersStopped, In, Opened
<1>8. CASE CloseResources(p)
  BY <1>1, <1>8, StopSane, PlainStep DEF CloseResources, In
<1> QED BY <1>2, <1>3, <1>4, <1>5, <1>6, <1>7, <1>8

LEMMA ServingKeeps ==
  ASSUME IInv, NEW p \in Replicas,
         \/ ServeFails(p) \/ Accept(p) \/ Acquire(p) \/ Release(p) \/ Respond(p)
         \/ WorkerReturns(p) \/ Signal(p)
  PROVE  IInv'
<1>1. Sane(proc[p]) /\ Database
  BY DEF IInv, ServeFails, Accept, Acquire, Release, Respond, WorkerReturns, Signal
<1>2. PICK f : Becomes(p, f) /\ Sane(f) /\ f.phase = proc[p].phase /\ f.driver = proc[p].driver
  <2>1. CASE ServeFails(p)
    BY <1>1, <2>1, ServingSane DEF ServeFails, Opened
  <2>2. CASE Accept(p)
    BY <1>1, <2>2, ServingSane DEF Accept, Opened
  <2>3. CASE Acquire(p)
    BY <1>1, <2>3, ServingSane DEF Acquire, Opened
  <2>4. CASE Release(p)
    BY <1>1, <2>4, ServingSane DEF Release
  <2>5. CASE Respond(p)
    BY <1>1, <2>5, ServingSane DEF Respond
  <2>6. CASE WorkerReturns(p)
    BY <1>1, <2>6, ServingSane DEF WorkerReturns, Opened
  <2>7. CASE Signal(p)
    BY <1>1, <2>7, ServingSane DEF Signal
  <2> QED BY <2>1, <2>2, <2>3, <2>4, <2>5, <2>6, <2>7
<1>3. f.driver = "postgres" /\ f.phase \in Wired => Complete
  BY <1>2 DEF IInv
<1> QED BY <1>1, <1>2, <1>3, PlainStep

LEMMA BootKeeps ==
  ASSUME IInv, NEW p \in Replicas,
         \/ LoadConfiguration(p) \/ Connect(p) \/ StartWorkers(p) \/ Wire(p)
         \/ BindListener(p) \/ MarkReady(p)
  PROVE  IInv'
<1> DEFINE r == proc[p]
<1>1. Sane(r) /\ Database /\ r.phase # "migrate"
  BY DEF IInv, LoadConfiguration, Connect, StartWorkers, Wire, BindListener, MarkReady, In
<1>2. r.driver = "postgres" /\ r.phase \in Wired => Complete
  BY DEF IInv
<1>3. CASE LoadConfiguration(p)
  <2>1. CASE Becomes(p, [Down EXCEPT !.phase = "failed"])
    <3>1. PICK f : Becomes(p, f) /\ f = [Down EXCEPT !.phase = "failed"]
      BY <2>1
    <3>2. Sane(f) /\ f.phase \notin Wired
      BY <3>1, DownSane, ServerAssumption DEF Sane, State, Down, Phases, Resources, Wired
    <3> QED BY <1>1, <3>1, <3>2, PlainStep
  <2>2. CASE \E driver \in Drivers :
               Becomes(p, [Down EXCEPT !.phase = "connect", !.driver = driver, !.open = {"log"}])
    <3> PICK driver \in Drivers :
               Becomes(p, [Down EXCEPT !.phase = "connect", !.driver = driver, !.open = {"log"}])
      BY <2>2
    <3> DEFINE f == [Down EXCEPT !.phase = "connect", !.driver = driver, !.open = {"log"}]
    <3>1. Becomes(p, f)
      OBVIOUS
    <3>2. Sane(f) /\ f.phase \notin Wired
      BY DownSane, ServerAssumption DEF Sane, State, Down, Phases, Resources, Wired
    <3> HIDE DEF f
    <3> QED BY <1>1, <3>1, <3>2, PlainStep
  <2> QED BY <1>3, <2>1, <2>2 DEF LoadConfiguration
<1>4. CASE Fail(p) /\ r.phase \notin {"down", "serving"}
  <2>1. PICK f : Becomes(p, f) /\ f = [r EXCEPT !.phase = "failed", !.open = @ \ {"log"}]
    BY <1>4 DEF Fail
  <2> HIDE DEF r
  <2>2. Sane(f) /\ f.phase = "failed"
    BY <1>1, <1>4, <2>1, FailSane
  <2> QED BY <1>1, <2>1, <2>2, PlainStep DEF Wired, r
<1>5. CASE /\ ~Fail(p)
           /\ Connect(p) \/ StartWorkers(p) \/ Wire(p) \/ BindListener(p) \/ MarkReady(p)
  <2>1. PICK f : /\ Becomes(p, f) /\ Sane(f) /\ f.driver = r.driver
                 /\ r.phase \in Wired \/ f.phase \notin Wired \/ r.driver # "postgres"
    <3>1. CASE Connect(p)
      <4>1. /\ r.phase = "connect"
            /\ \/ r.driver = "postgres" /\ Proceeds(p, "lock", {"pool"})
               \/ r.driver # "postgres" /\ Proceeds(p, "workers", {})
        BY <1>5, <3>1 DEF Connect, In
      <4>2. CASE r.driver = "postgres" /\ Proceeds(p, "lock", {"pool"})
        <5> DEFINE f == [r EXCEPT !.phase = "lock", !.open = @ \cup {"pool"}]
        <5>1. Sane(f) /\ f.driver = r.driver
          BY <1>1, <4>1, <4>2, BootSane
        <5>2. f.phase = "lock" /\ Becomes(p, f)
          BY <1>1, <4>2 DEF Proceeds, Sane, State
        <5> QED BY <5>1, <5>2 DEF Wired
      <4>3. CASE r.driver # "postgres" /\ Proceeds(p, "workers", {})
        <5> DEFINE f == [r EXCEPT !.phase = "workers", !.open = @ \cup {}]
        <5>1. Sane(f) /\ f.driver = r.driver
          BY <1>1, <4>1, <4>3, BootSane
        <5>2. Becomes(p, f)
          BY <4>3 DEF Proceeds
        <5> QED BY <4>3, <5>1, <5>2
      <4> QED BY <4>1, <4>2, <4>3
    <3>2. CASE StartWorkers(p)
      <4>1. r.phase = "workers" /\ IF "pool" \in r.open THEN Proceeds(p, "wire", {"worker"})
                                                         ELSE Proceeds(p, "wire", {})
        BY <3>2 DEF StartWorkers, In, Opened
      <4>2. CASE "pool" \in r.open
        BY <1>1, <4>1, <4>2, BootSane DEF Proceeds, Wired
      <4>3. CASE "pool" \notin r.open
        BY <1>1, <4>1, <4>3, BootSane DEF Proceeds, Wired
      <4> QED BY <4>2, <4>3
    <3>3. CASE Wire(p)
      <4>1. r.phase = "wire" /\ Proceeds(p, "bind", {})
        BY <1>5, <3>3 DEF Wire, In
      <4> QED BY <1>1, <4>1, BootSane DEF Proceeds, Wired
    <3>4. CASE BindListener(p)
      <4>1. /\ r.phase = "bind"
            /\ Proceeds(p, "starting", {"listener"}) \/ Becomes(p, [r EXCEPT !.phase = "failed"])
        BY <3>4 DEF BindListener, In
      <4>2. CASE Proceeds(p, "starting", {"listener"})
        <5> DEFINE f == [r EXCEPT !.phase = "starting", !.open = @ \cup {"listener"}]
        <5>1. Sane(f) /\ f.driver = r.driver
          BY <1>1, <4>1, BootSane
        <5>2. Becomes(p, f)
          BY <4>2 DEF Proceeds
        <5> QED BY <4>1, <5>1, <5>2 DEF Wired
      <4>3. CASE Becomes(p, [r EXCEPT !.phase = "failed"])
        BY <1>1, <4>1, <4>3, BootSane DEF Wired
      <4> QED BY <4>1, <4>2, <4>3
    <3>5. CASE MarkReady(p)
      BY <1>1, <3>5, BootSane DEF MarkReady, In, Wired
    <3> QED BY <1>5, <3>1, <3>2, <3>3, <3>4, <3>5
  <2> QED BY <1>1, <1>2, <2>1, PlainStep
<1>6. Fail(p) => r.phase \notin {"down", "serving"} \/ LoadConfiguration(p)
  BY DEF LoadConfiguration, Connect, StartWorkers, Wire, BindListener, MarkReady, In
<1> QED BY <1>3, <1>4, <1>5, <1>6

-----------------------------------------------------------------------------
\* The migrations and crashes.

LEMMA LockKeeps ==
  ASSUME IInv, NEW p \in Replicas, LockSchema(p) PROVE IInv'
<1> DEFINE r == proc[p]
<1>1. Sane(r) /\ r.phase = "lock" /\ UNCHANGED schema
  BY DEF IInv, LockSchema, In
<1>2. CASE migrator' = p /\ Proceeds(p, "migrate", {})
  <2> DEFINE f == [r EXCEPT !.phase = "migrate", !.open = @ \cup {}]
  <2>1. Sane(f)
    BY <1>1, BootSane
  <2>2. f.phase = "migrate"
    BY <1>1 DEF Sane, State
  <2>3. Becomes(p, f)
    BY <1>2 DEF Proceeds
  <2> HIDE DEF f
  <2> QED BY <1>1, <1>2, <2>1, <2>2, <2>3, ReplicaStep DEF Wired
<1>3. CASE migrator' = migrator /\ Fail(p)
  <2>1. PICK f : Becomes(p, f) /\ Sane(f) /\ f.phase = "failed"
    BY <1>1, <1>3, FailSane DEF Fail
  <2> QED BY <1>1, <1>3, <2>1, ReplicaStep DEF Wired, IInv
<1> QED BY <1>2, <1>3 DEF LockSchema

LEMMA MigrationKeeps ==
  ASSUME IInv, NEW p \in Replicas,
         BeginMigration(p) \/ EndMigration(p) \/ EndMigrations(p)
  PROVE  IInv'
<1> DEFINE r == proc[p]
<1>1. Sane(r) /\ r.phase = "migrate" /\ schema \in [version : 0 .. Migrations, dirty : BOOLEAN]
  BY DEF IInv, BeginMigration, EndMigration, EndMigrations, In
<1>2. CASE schema' # schema /\ UNCHANGED <<proc, migrator>> /\ ~Complete
           /\ schema' \in [version : 0 .. Migrations, dirty : BOOLEAN]
  BY <1>2 DEF IInv
<1>3. BeginMigration(p) =>
        /\ UNCHANGED <<proc, migrator>> /\ ~Complete /\ schema' # schema
        /\ schema' \in [version : 0 .. Migrations, dirty : BOOLEAN]
  BY <1>1, ServerAssumption DEF BeginMigration, Complete
<1>4. CASE EndMigration(p) /\ UNCHANGED <<proc, migrator>>
  <2>1. ~Complete
    BY <1>4 DEF EndMigration, Complete
  <2>2. schema' = schema \/ schema' = [schema EXCEPT !.dirty = FALSE]
    BY <1>4 DEF EndMigration
  <2>3. schema' \in [version : 0 .. Migrations, dirty : BOOLEAN]
    BY <1>1, <2>2
  <2> QED BY <1>4, <2>1, <2>3 DEF IInv
<1>5. CASE Fail(p) /\ migrator' = Nobody /\ UNCHANGED schema
  <2>1. PICK f : Becomes(p, f) /\ Sane(f) /\ f.phase = "failed"
    BY <1>1, <1>5, FailSane DEF Fail
  <2> QED BY <1>5, <2>1, ReplicaStep DEF Wired
<1>6. CASE EndMigrations(p)
  <2> DEFINE f == [r EXCEPT !.phase = "workers", !.open = @ \cup {}]
  <2>1. Sane(f)
    BY <1>1, BootSane
  <2>2. Becomes(p, f) /\ migrator' = Nobody /\ UNCHANGED schema
    BY <1>6 DEF EndMigrations, Proceeds
  <2>3. Complete
    BY <1>1, <1>6 DEF EndMigrations, Complete
  <2> HIDE DEF f
  <2> QED BY <2>1, <2>2, <2>3, ReplicaStep
<1>7. EndMigration(p) =>
        UNCHANGED <<proc, migrator>> \/ (Fail(p) /\ migrator' = Nobody /\ UNCHANGED schema)
  BY DEF EndMigration
<1> QED BY <1>2, <1>3, <1>4, <1>5, <1>6, <1>7

LEMMA CrashKeeps ==
  ASSUME IInv, NEW p \in Replicas, Crash(p) PROVE IInv'
  BY DownSane, ReplicaStep, ServerAssumption DEF Crash, IInv, Wired

LEMMA StepIInv == IInv /\ [Next]_vars => IInv'
<1> SUFFICES ASSUME IInv, [Next]_vars PROVE IInv'
  OBVIOUS
<1>1. CASE Next
  BY <1>1, BootKeeps, LockKeeps, MigrationKeeps, StopKeeps, ServingKeeps, CrashKeeps
     DEF Next, Step
<1>2. CASE UNCHANGED vars
  BY <1>2 DEF IInv, vars, Complete
<1> QED BY <1>1, <1>2

-----------------------------------------------------------------------------

\* The types hold for every number of replicas, and only a replica that is migrating
\* holds the migration lock.
THEOREM TypeCorrect == Spec => []TypeOK
<1>1. IInv => TypeOK
  BY DEF IInv, TypeOK, State, Sane
<1> QED BY <1>1, InitIInv, StepIInv, PTL DEF Spec

\* The pool is closed after the worker and after the last connection came back
\* (Server.Run, App.Run), and exit code 0 means that nothing was left open.
THEOREM PoolIsClosedLast == Spec => []PoolOutlivesUsers
<1>1. IInv => PoolOutlivesUsers
  BY DEF IInv, PoolOutlivesUsers, Sane, State, Opened
<1> QED BY <1>1, InitIInv, StepIInv, PTL DEF Spec

\* Readiness is announced only with a pool and a complete, clean schema, whichever
\* replica ran the migrations and whichever crashed.
THEOREM ReadyMeansAble == Spec => []ReadyIsAble
<1>1. IInv => ReadyIsAble
  BY DEF IInv, ReadyIsAble, AnswersReady, Sane, State, Opened, Complete, Wired
<1> QED BY <1>1, InitIInv, StepIInv, PTL DEF Spec
=============================================================================
