------------------------------ MODULE Scheduler ------------------------------
(***************************************************************************)
(* The scheduler service of apps/scheduler: tasks live in the table tasks, *)
(* their cron jobs in the SchedulerRegistry of the one process. Requests   *)
(* change a row first and the registry later, with awaits in between, and  *)
(* a restart rebuilds the registry from the rows.                          *)
(*                                                                         *)
(* A row is its cron expression and its is_active flag; endpoint and       *)
(* method travel with the cron expression. The job of a task is the row it *)
(* was started with, which is what it will call.                           *)
(***************************************************************************)
EXTENDS Integers

CONSTANTS
    Requests,       \* HTTP requests that may be in flight at the same time
    Crons,          \* cron expressions
    Valid,          \* those that new CronJob accepts
    None,           \* no row, no job
    MaxTasks,       \* bound: tasks ever stored
    MaxFaults,      \* bound: queries that fail
    MaxRestarts     \* bound: restarts of the process

ASSUME CronsAssumption == Valid \subseteq Crons /\ None \notin [cron : Crons, isActive : BOOLEAN] \cup BOOLEAN
ASSUME BoundsAssumption == MaxTasks \in Nat /\ MaxFaults \in Nat /\ MaxRestarts \in Nat

VARIABLES
    rows,           \* table tasks, [Ids -> row or None]
    nextId,         \* the SERIAL sequence of the table
    registry,       \* SchedulerRegistry, [Ids -> the job's row or None]
    up,             \* the process serves requests
    pc,             \* [Requests -> the await the request is at]
    id,             \* [Requests -> the task the request is about]
    pre,            \* [Requests -> isActive of preUpdate, the row before an update]
    seen,           \* [Requests -> the row read last]
    disturbed,      \* history: tasks with a reason to be out of step since the boot
    faults, restarts

tableVars   == <<rows, nextId>>
requestVars == <<pc, id, pre, seen>>
bounds      == <<faults, restarts>>
vars == <<tableVars, registry, up, requestVars, disturbed, bounds>>

Ids == 1..MaxTasks
Row == [cron : Crons, isActive : BOOLEAN]
Awaits == {"storeFind", "storeStart", "updateWrite", "updateFind", "updateApply",
           "destroyWrite", "destroyStop"}

InFlight(r, i) == pc[r] # "idle" /\ id[r] = i
Busy(i) == \E r \in Requests : InFlight(r, i)

\* The job a row should have.
JobOf(row) == IF row # None /\ row.isActive THEN row ELSE None

\* It should have one, and new CronJob will throw.
Unstartable(row) == JobOf(row) # None /\ row.cron \notin Valid

-----------------------------------------------------------------------------
Init ==
    /\ rows = [i \in Ids |-> None]
    /\ nextId = 1
    /\ registry = [i \in Ids |-> None]
    /\ up = FALSE
    /\ pc = [r \in Requests |-> "idle"]
    /\ id = [r \in Requests |-> 0]
    /\ pre = [r \in Requests |-> None]
    /\ seen = [r \in Requests |-> None]
    /\ disturbed = {}
    /\ faults = 0
    /\ restarts = 0

-----------------------------------------------------------------------------
(* CronService. *)

\* start: an invalid expression throws, and so does a name that is registered.
Startable(jobs, i, row) == row.cron \in Valid /\ jobs[i] = None
Start(jobs, i, row) ==
    IF Startable(jobs, i, row) THEN [jobs EXCEPT ![i] = row] ELSE jobs

Stop(jobs, i) == [jobs EXCEPT ![i] = None]

-----------------------------------------------------------------------------
(* Requests. A request that begins while another on the same task is in flight *)
(* disturbs the task.                                                          *)

Begin(r, i, await) ==
    /\ up
    /\ pc[r] = "idle"
    /\ pc' = [pc EXCEPT ![r] = await]
    /\ id' = [id EXCEPT ![r] = i]
    /\ disturbed' = IF Busy(i) THEN disturbed \cup {i} ELSE disturbed

Continue(r, from, next) ==
    /\ pc[r] = from
    /\ pc' = [pc EXCEPT ![r] = next]
    /\ UNCHANGED id

Forget(r) ==
    /\ pc' = [pc EXCEPT ![r] = "idle"]
    /\ id' = [id EXCEPT ![r] = 0]
    /\ pre' = [pre EXCEPT ![r] = None]
    /\ seen' = [seen EXCEPT ![r] = None]

\* store
StoreInsert(r) ==
    /\ nextId \in Ids
    /\ Begin(r, nextId, "storeFind")
    /\ \E body \in Row : rows' = [rows EXCEPT ![nextId] = body]
    /\ nextId' = nextId + 1
    /\ UNCHANGED <<registry, up, pre, seen, bounds>>

StoreFind(r) ==
    /\ Continue(r, "storeFind", "storeStart")
    /\ seen' = [seen EXCEPT ![r] = rows[id[r]]]
    /\ UNCHANGED <<tableVars, registry, up, pre, disturbed, bounds>>

\* The job is started whatever is_active says; it does not start if the row is gone
\* again or its expression is invalid.
StoreStart(r) ==
    /\ pc[r] = "storeStart"
    /\ registry' = IF seen[r] = None THEN registry ELSE Start(registry, id[r], seen[r])
    /\ disturbed' = IF seen[r] # None /\ (~seen[r].isActive \/ Unstartable(seen[r]))
                    THEN disturbed \cup {id[r]} ELSE disturbed
    /\ Forget(r)
    /\ UNCHANGED <<tableVars, up, bounds>>

\* update
UpdateFindBefore(r) ==
    /\ \E i \in Ids :
         /\ Begin(r, i, "updateWrite")
         /\ pre' = [pre EXCEPT ![r] = IF rows[i] = None THEN None ELSE rows[i].isActive]
    /\ UNCHANGED <<tableVars, registry, up, seen, bounds>>

\* The body replaces the row instead of being merged into it.
UpdateWriteReplacing(r) ==
    /\ Continue(r, "updateWrite", "updateFind")
    /\ IF rows[id[r]] = None
       THEN UNCHANGED rows
       ELSE \E active \in BOOLEAN : rows' = [rows EXCEPT ![id[r]] = [isActive |-> active]]
    /\ UNCHANGED <<nextId, registry, up, pre, seen, disturbed, bounds>>

\* An update of a row that does not exist writes nothing and does not fail.
UpdateWrite(r) ==
    /\ Continue(r, "updateWrite", "updateFind")
    /\ IF rows[id[r]] = None
       THEN UNCHANGED rows
       ELSE \E row \in Row : rows' = [rows EXCEPT ![id[r]] = row]
    /\ UNCHANGED <<nextId, registry, up, pre, seen, disturbed, bounds>>

UpdateFind(r) ==
    /\ Continue(r, "updateFind", "updateApply")
    /\ seen' = [seen EXCEPT ![r] = rows[id[r]]]
    /\ UNCHANGED <<tableVars, registry, up, pre, disturbed, bounds>>

\* It does not stop the job of the row before.
AppliedWithoutStop(r) ==
    IF seen[r].isActive THEN Start(registry, id[r], seen[r]) ELSE registry

\* The registry after an update whose task was there before and after.
Applied(r) ==
    LET stopped == IF pre[r] THEN Stop(registry, id[r]) ELSE registry
    IN  IF seen[r].isActive THEN Start(stopped, id[r], seen[r]) ELSE stopped

\* A task missing before or after makes the handler throw before it touches the
\* registry; an invalid expression makes it throw when the old job is gone already.
UpdateApply(r) ==
    /\ pc[r] = "updateApply"
    /\ registry' = IF pre[r] = None \/ seen[r] = None THEN registry ELSE Applied(r)
    /\ disturbed' = IF Unstartable(seen[r]) THEN disturbed \cup {id[r]} ELSE disturbed
    /\ Forget(r)
    /\ UNCHANGED <<tableVars, up, bounds>>

\* destroy
DestroyFind(r) ==
    /\ \E i \in Ids :
         /\ Begin(r, i, "destroyWrite")
         /\ seen' = [seen EXCEPT ![r] = rows[i]]
    /\ UNCHANGED <<tableVars, registry, up, pre, bounds>>

DestroyWrite(r) ==
    /\ Continue(r, "destroyWrite", "destroyStop")
    /\ rows' = [rows EXCEPT ![id[r]] = None]
    /\ UNCHANGED <<nextId, registry, up, pre, seen, disturbed, bounds>>

DestroyStop(r) ==
    /\ pc[r] = "destroyStop"
    /\ registry' = IF seen[r] = None THEN registry ELSE Stop(registry, id[r])
    /\ Forget(r)
    /\ UNCHANGED <<tableVars, up, disturbed, bounds>>

\* A query rejects and the request ends with an error. Once a write is done the task
\* is disturbed.
Written == {"storeFind", "updateFind"}
Fault(r) ==
    /\ pc[r] \in Written \cup {"updateWrite", "destroyWrite"}
    /\ faults < MaxFaults
    /\ faults' = faults + 1
    /\ disturbed' = IF pc[r] \in Written THEN disturbed \cup {id[r]} ELSE disturbed
    /\ Forget(r)
    /\ UNCHANGED <<tableVars, registry, up, restarts>>

-----------------------------------------------------------------------------
(* The process. *)

Bootable == \A i \in Ids : ~Unstartable(rows[i])

\* onApplicationBootstrap, awaited before the server listens.
Boot ==
    /\ ~up
    /\ Bootable
    /\ up' = TRUE
    /\ registry' = [i \in Ids |-> JobOf(rows[i])]
    /\ disturbed' = {}
    /\ UNCHANGED <<tableVars, requestVars, bounds>>

\* An active row with an invalid expression throws, and the server never listens. The jobs
\* of the rows before it, in whatever order they are read, run in a process that does not
\* answer, until the liveness probe has it replaced by another, where the row throws again.
BootThrows ==
    /\ ~up
    /\ ~Bootable
    /\ \E before \in SUBSET {i \in Ids : JobOf(rows[i]) # None /\ ~Unstartable(rows[i])} :
          registry' = [i \in Ids |-> IF i \in before THEN rows[i] ELSE None]
    /\ UNCHANGED <<tableVars, up, requestVars, disturbed, bounds>>

Restart ==
    /\ up
    /\ restarts < MaxRestarts
    /\ restarts' = restarts + 1
    /\ up' = FALSE
    /\ registry' = [i \in Ids |-> None]
    /\ pc' = [r \in Requests |-> "idle"]
    /\ id' = [r \in Requests |-> 0]
    /\ pre' = [r \in Requests |-> None]
    /\ seen' = [r \in Requests |-> None]
    /\ UNCHANGED <<tableVars, disturbed, faults>>

-----------------------------------------------------------------------------
Request(r) ==
    \/ StoreInsert(r) \/ StoreFind(r) \/ StoreStart(r)
    \/ UpdateFindBefore(r) \/ UpdateWrite(r) \/ UpdateFind(r) \/ UpdateApply(r)
    \/ DestroyFind(r) \/ DestroyWrite(r) \/ DestroyStop(r)
    \/ Fault(r)

Next == Boot \/ BootThrows \/ Restart \/ \E r \in Requests : Request(r)

Spec == Init /\ [][Next]_vars

\* The replica set replaces a process that exited or does not answer, for as long as it takes.
FairSpec == Spec /\ WF_vars(Boot \/ BootThrows)

-----------------------------------------------------------------------------
(* Properties. *)

\* The variables hold the values of the table, the registry and the requests in flight.
TypeOK ==
    /\ rows \in [Ids -> Row \cup {None}]
    /\ nextId \in Nat
    /\ registry \in [Ids -> Row \cup {None}]
    /\ up \in BOOLEAN
    /\ pc \in [Requests -> Awaits \cup {"idle"}]
    /\ id \in [Requests -> Ids \cup {0}]
    /\ pre \in [Requests -> BOOLEAN \cup {None}]
    /\ seen \in [Requests -> Row \cup {None}]
    /\ disturbed \subseteq Ids
    /\ faults \in Nat /\ restarts \in Nat

\* A served task that no request is working on runs exactly the job its row asks for:
\* none if the row is disabled or gone, the row as it is now otherwise. The exceptions,
\* until the next boot, are tasks two of whose requests overlapped, whose request failed
\* between the write and the registry, that were stored disabled, or whose expression
\* is invalid (TaskService.store, update, destroy, onApplicationBootstrap). Requests on
\* different tasks never disturb each other.
InStep ==
    \A i \in Ids : up /\ ~Busy(i) /\ i \notin disturbed => registry[i] = JobOf(rows[i])

\* onApplicationBootstrap resumes "active cron jobs": a restarted scheduler serves again.
ResumesAfterRestart == ~up ~> up
=============================================================================
