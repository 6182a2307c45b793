--------------------------- MODULE SchedulerProofs ---------------------------
(***************************************************************************)
(* For any requests, tasks, expressions, faults and restarts, the registry *)
(* is in step with the table outside of the cases InStep lists. The        *)
(* invariant says what a request that is alone on its task may rely on at  *)
(* each await.                                                             *)
(***************************************************************************)
EXTENDS Scheduler, TLAPS

\* Two requests work on a task at the same time only if that disturbed it.
Alone ==
    \A i \in Ids : i \notin disturbed =>
        \A r, s \in Requests : InFlight(r, i) /\ InFlight(s, i) => r = s

FreshRows == \A i \in Ids : i >= nextId => rows[i] = None

DownIsIdle == ~up => \A r \in Requests : pc[r] = "idle"

\* What the registry holds while an update is between its two reads: what preUpdate says.
PreKnown(r, i) ==
    /\ pre[r] = None <=> rows[i] = None
    /\ pre[r] # TRUE => registry[i] = None

Known(r, i) ==
    /\ pc[r] = "storeFind" => registry[i] = None
    /\ pc[r] = "storeStart" => registry[i] = None /\ seen[r] = rows[i]
    /\ pc[r] = "updateWrite" => PreKnown(r, i) /\ registry[i] = JobOf(rows[i])
    /\ pc[r] = "updateFind" => PreKnown(r, i)
    /\ pc[r] = "updateApply" => PreKnown(r, i) /\ seen[r] = rows[i]
    /\ pc[r] = "destroyWrite" => seen[r] = rows[i] /\ registry[i] = JobOf(rows[i])
    /\ pc[r] = "destroyStop" => rows[i] = None /\ registry[i] = JobOf(seen[r])

RequestInv(r) ==
    pc[r] # "idle" => id[r] \in Ids /\ (id[r] \notin disturbed => Known(r, id[r]))

Inv ==
    /\ TypeOK /\ Alone /\ FreshRows /\ DownIsIdle /\ InStep
    /\ \A r \in Requests : RequestInv(r)

-----------------------------------------------------------------------------
(* Types. *)

\* Every step of a request keeps the types (TaskService).
LEMMA RequestTypes ==
    ASSUME Inv, NEW r \in Requests, Request(r)
    PROVE  TypeOK'
<1> USE CronsAssumption, BoundsAssumption DEF Ids, Awaits
<1>0. TypeOK /\ RequestInv(r)
    BY DEF Inv
<1>1. CASE StoreInsert(r)
    BY <1>0, <1>1 DEF TypeOK, StoreInsert, Begin, bounds
<1>2. CASE StoreFind(r)
    BY <1>0, <1>2 DEF TypeOK, RequestInv, StoreFind, Continue, tableVars, bounds
<1>3. CASE StoreStart(r)
    <2>1. registry' \in [Ids -> Row \cup {None}]
        BY <1>0, <1>3 DEF TypeOK, RequestInv, StoreStart, Start
    <2> QED
        BY <1>0, <1>3, <2>1 DEF TypeOK, RequestInv, StoreStart, Forget, tableVars, bounds
<1>4. CASE UpdateFindBefore(r)
    <2>1. PICK i \in Ids :
              /\ Begin(r, i, "updateWrite")
              /\ pre' = [pre EXCEPT ![r] = IF rows[i] = None THEN None ELSE rows[i].isActive]
        BY <1>4 DEF UpdateFindBefore
    <2>2. (IF rows[i] = None THEN None ELSE rows[i].isActive) \in BOOLEAN \cup {None}
        BY <1>0 DEF TypeOK, Row
    <2> QED
        BY <1>0, <1>4, <2>1, <2>2 DEF TypeOK, UpdateFindBefore, Begin, tableVars, bounds
<1>5. CASE UpdateWrite(r)
    BY <1>0, <1>5 DEF TypeOK, RequestInv, UpdateWrite, Continue, bounds
<1>6. CASE UpdateFind(r)
    BY <1>0, <1>6 DEF TypeOK, RequestInv, UpdateFind, Continue, tableVars, bounds
<1>7. CASE UpdateApply(r)
    <2>1. registry' \in [Ids -> Row \cup {None}]
        BY <1>0, <1>7 DEF TypeOK, RequestInv, UpdateApply, Applied, Start, Stop
    <2> QED
        BY <1>0, <1>7, <2>1 DEF TypeOK, RequestInv, UpdateApply, Forget, tableVars, bounds
<1>8. CASE DestroyFind(r)
    BY <1>0, <1>8 DEF TypeOK, DestroyFind, Begin, tableVars, bounds
<1>9. CASE DestroyWrite(r)
    BY <1>0, <1>9 DEF TypeOK, RequestInv, DestroyWrite, Continue, bounds
<1>10. CASE DestroyStop(r)
    BY <1>0, <1>10 DEF TypeOK, RequestInv, DestroyStop, Stop, Forget, tableVars, bounds
<1>11. CASE Fault(r)
    <2>1. disturbed' \subseteq Ids
        <3>1. disturbed' \subseteq disturbed \cup {id[r]} /\ pc[r] # "idle"
            BY <1>11 DEF Fault, Written
        <3> QED
            BY <1>0, <3>1 DEF TypeOK, RequestInv
    <2>2. faults' \in Nat /\ UNCHANGED <<rows, nextId, registry, up, restarts>>
        BY <1>0, <1>11 DEF TypeOK, Fault, tableVars
    <2>3. Forget(r)
        BY <1>11 DEF Fault
    <2> QED
        BY <1>0, <2>1, <2>2, <2>3 DEF TypeOK, Forget
<1> QED
    BY <1>1, <1>2, <1>3, <1>4, <1>5, <1>6, <1>7, <1>8, <1>9, <1>10, <1>11 DEF Request

-----------------------------------------------------------------------------
(* A request touches one task. *)

\* What holds before a step of request r on task i, and what it keeps of the others.
OnTask(r, i) ==
    /\ \A q \in Requests \ {r} : /\ pc'[q] = pc[q] /\ id'[q] = id[q]
                                 /\ pre'[q] = pre[q] /\ seen'[q] = seen[q]
    /\ \A j \in Ids \ {i} : rows'[j] = rows[j] /\ registry'[j] = registry[j]
    /\ disturbed \subseteq disturbed'
    /\ up /\ up'
    /\ InFlight(r, i) \/ (pc[r] = "idle" /\ (Busy(i) => i \in disturbed'))
    /\ pc'[r] = "idle" \/ id'[r] = i

\* Other requests keep what they rely on, and other tasks stay in step, when a request
\* works on its task: it is alone there or the task is disturbed.
LEMMA OneTask ==
    ASSUME Inv, TypeOK', FreshRows', NEW r \in Requests, NEW i \in Ids, OnTask(r, i),
           RequestInv(r)',
           pc'[r] = "idle" /\ i \notin disturbed' => registry'[i] = JobOf(rows'[i])
    PROVE  Inv'
<1>1. \A q \in Requests \ {r} : InFlight(q, i) => i \in disturbed'
    BY DEF Inv, Alone, Busy, OnTask
<1>2. ASSUME NEW q \in Requests \ {r}
      PROVE  RequestInv(q)'
    <2>1. RequestInv(q)
        BY DEF Inv
    <2>2. CASE id[q] = i
        BY <1>1, <2>1, <2>2 DEF RequestInv, InFlight, OnTask
    <2>3. CASE id[q] # i
        <3> SUFFICES ASSUME pc'[q] # "idle"
                     PROVE  (id[q] \in Ids /\ (id[q] \notin disturbed => Known(q, id[q])))'
            BY DEF RequestInv
        <3>1. /\ pc'[q] = pc[q] /\ id'[q] = id[q] /\ pre'[q] = pre[q] /\ seen'[q] = seen[q]
              /\ disturbed \subseteq disturbed'
            BY DEF OnTask
        <3>2. id[q] \in Ids /\ (id[q] \notin disturbed => Known(q, id[q]))
            BY <2>1, <3>1 DEF RequestInv
        <3>3. rows'[id[q]] = rows[id[q]] /\ registry'[id[q]] = registry[id[q]]
            BY <2>3, <3>2 DEF OnTask
        <3>4. PreKnown(q, id[q]) => PreKnown(q, id[q])'
            BY <3>1, <3>3 DEF PreKnown
        <3> QED
            BY <3>1, <3>2, <3>3, <3>4 DEF Known
    <2> QED
        BY <2>2, <2>3
<1>3. Alone'
    <2> SUFFICES ASSUME NEW j \in Ids, j \notin disturbed',
                        NEW q \in Requests, NEW s \in Requests,
                        InFlight(q, j)', InFlight(s, j)'
                 PROVE  q = s
        BY DEF Alone
    <2>1. CASE j = i
        BY <1>1, <2>1 DEF InFlight, OnTask
    <2>2. CASE j # i
        BY <2>2 DEF Inv, Alone, InFlight, OnTask
    <2> QED
        BY <2>1, <2>2
<1>4. InStep'
    <2> SUFFICES ASSUME NEW j \in Ids, up', ~Busy(j)', j \notin disturbed'
                 PROVE  registry'[j] = JobOf(rows'[j])
        BY DEF InStep
    <2>1. CASE j = i
        <3>1. pc'[r] = "idle"
            BY <2>1 DEF Busy, InFlight, OnTask
        <3> QED
            BY <2>1, <3>1
    <2>2. CASE j # i
        <3>1. ~Busy(j)
            BY <2>2 DEF Busy, InFlight, OnTask
        <3> QED
            BY <2>2, <3>1 DEF Inv, InStep, OnTask
    <2> QED
        BY <2>1, <2>2
<1>5. DownIsIdle'
    BY DEF DownIsIdle, OnTask
<1> QED
    BY <1>2, <1>3, <1>4, <1>5 DEF Inv

\* A request in flight has a task, and the server is up.
LEMMA InFlightTask ==
    ASSUME Inv, NEW r \in Requests, pc[r] # "idle"
    PROVE  /\ \E i \in Ids : i = id[r] /\ InFlight(r, i)
           /\ up
BY DEF Inv, RequestInv, InFlight, DownIsIdle

\* Rows that are not stored yet stay away when no row appears.
LEMMA FreshRowsStay ==
    ASSUME Inv, nextId' = nextId,
           \A j \in Ids : rows'[j] = rows[j] \/ rows[j] # None \/ rows'[j] = None
    PROVE  FreshRows'
BY DEF Inv, FreshRows

-----------------------------------------------------------------------------
(* What a request relies on at its next await, and what it leaves behind. *)

\* A new row has no job until its request starts one (store).
LEMMA StoreInsertKeeps ==
    ASSUME Inv, TypeOK', NEW r \in Requests, StoreInsert(r)
    PROVE  Inv'
<1>0. TypeOK
    BY DEF Inv
<1>1. PICK i \in Ids : i = nextId
    BY DEF StoreInsert
<1>2. /\ pc[r] = "idle" /\ up /\ nextId' = i + 1
      /\ pc'[r] = "storeFind" /\ id'[r] = i /\ UNCHANGED <<registry, up, pre, seen>>
      /\ \A q \in Requests \ {r} : pc'[q] = pc[q] /\ id'[q] = id[q]
      /\ \A j \in Ids \ {i} : rows'[j] = rows[j]
      /\ disturbed' = IF Busy(i) THEN disturbed \cup {i} ELSE disturbed
    BY <1>0, <1>1 DEF StoreInsert, Begin, TypeOK
<1>3. OnTask(r, i)
    BY <1>2 DEF OnTask
<1>4. RequestInv(r)'
    <2>1. rows[i] = None
        BY <1>0, <1>1 DEF Inv, FreshRows, TypeOK
    <2>2. i \notin disturbed' => registry[i] = None
        BY <1>2, <2>1 DEF Inv, InStep, JobOf
    <2> QED
        BY <1>2, <2>2 DEF RequestInv, Known
<1>5. FreshRows'
    <2> SUFFICES ASSUME NEW j \in Ids, j >= nextId'
                 PROVE  rows'[j] = None
        BY DEF FreshRows
    <2>1. j # i /\ j >= nextId
        BY <1>0, <1>1, <1>2 DEF TypeOK, Ids
    <2> QED
        BY <1>2, <2>1 DEF Inv, FreshRows
<1> QED
    BY <1>2, <1>3, <1>4, <1>5, OneTask

\* Reading a row back keeps what the request relies on (store, update).
LEMMA FindKeeps ==
    ASSUME Inv, TypeOK', NEW r \in Requests, StoreFind(r) \/ UpdateFind(r)
    PROVE  Inv'
<1>0. TypeOK /\ RequestInv(r)
    BY DEF Inv
<1>1. PICK i \in Ids : i = id[r] /\ InFlight(r, i)
    BY InFlightTask DEF StoreFind, UpdateFind, Continue
<1>2. /\ id'[r] = i /\ seen'[r] = rows[i] /\ up
      /\ \/ pc[r] = "storeFind" /\ pc'[r] = "storeStart"
         \/ pc[r] = "updateFind" /\ pc'[r] = "updateApply"
      /\ UNCHANGED <<rows, nextId, registry, up, pre, disturbed>>
      /\ \A q \in Requests \ {r} : pc'[q] = pc[q] /\ id'[q] = id[q] /\ seen'[q] = seen[q]
    BY <1>0, <1>1, InFlightTask
       DEF StoreFind, UpdateFind, Continue, TypeOK, tableVars, InFlight
<1>3. OnTask(r, i)
    BY <1>1, <1>2 DEF OnTask
<1>4. RequestInv(r)'
    BY <1>0, <1>1, <1>2 DEF RequestInv, Known, PreKnown
<1>5. FreshRows'
    BY <1>2, FreshRowsStay
<1> QED
    BY <1>2, <1>3, <1>4, <1>5, OneTask

\* The last step of a request: what it leaves in the registry is all that matters.
LEMMA LastStep ==
    ASSUME Inv, TypeOK', NEW r \in Requests, NEW i \in Ids, InFlight(r, i), Forget(r),
           UNCHANGED <<tableVars, up>>, disturbed \subseteq disturbed',
           \A j \in Ids \ {i} : registry'[j] = registry[j],
           i \notin disturbed' => registry'[i] = JobOf(rows[i])
    PROVE  Inv'
<1>1. /\ pc'[r] = "idle" /\ UNCHANGED <<rows, nextId, up>>
      /\ \A q \in Requests \ {r} : /\ pc'[q] = pc[q] /\ id'[q] = id[q]
                                   /\ pre'[q] = pre[q] /\ seen'[q] = seen[q]
    BY DEF Inv, TypeOK, Forget, tableVars
<1>2. OnTask(r, i)
    BY <1>1, InFlightTask DEF OnTask, InFlight
<1>3. RequestInv(r)' /\ FreshRows'
    BY <1>1, FreshRowsStay DEF RequestInv
<1> QED
    BY <1>1, <1>2, <1>3, OneTask

\* Only the job of the task changes when one is started or stopped (CronService).
LEMMA StartType ==
    ASSUME NEW jobs \in [Ids -> Row \cup {None}], NEW i \in Ids, NEW row \in Row
    PROVE  /\ Start(jobs, i, row) \in [Ids -> Row \cup {None}]
           /\ Stop(jobs, i) \in [Ids -> Row \cup {None}] /\ Stop(jobs, i)[i] = None
           /\ \A j \in Ids \ {i} : /\ Start(jobs, i, row)[j] = jobs[j]
                                   /\ Stop(jobs, i)[j] = jobs[j]
           /\ jobs[i] = None /\ row.cron \in Valid => Start(jobs, i, row)[i] = row
BY DEF Start, Startable, Stop

\* A started task is left with its row's job unless the row is disabled, unstartable or
\* gone (store).
LEMMA StoreStartKeeps ==
    ASSUME Inv, TypeOK', NEW r \in Requests, StoreStart(r)
    PROVE  Inv'
<1>0. TypeOK /\ RequestInv(r)
    BY DEF Inv
<1>1. PICK i \in Ids : i = id[r] /\ InFlight(r, i)
    BY InFlightTask DEF StoreStart
<1>2. /\ Forget(r) /\ UNCHANGED <<tableVars, up>> /\ disturbed \subseteq disturbed'
      /\ seen[r] \in Row \cup {None} /\ pc[r] = "storeStart"
    BY <1>0 DEF StoreStart, TypeOK
<1>3. i \notin disturbed => registry[i] = None /\ seen[r] = rows[i]
    BY <1>0, <1>1, <1>2 DEF RequestInv, Known
<1>4. CASE seen[r] = None
    <2>1. registry' = registry
        BY <1>4 DEF StoreStart
    <2> QED
        BY <1>1, <1>2, <1>3, <1>4, <2>1, LastStep DEF JobOf
<1>5. CASE seen[r] # None
    <2>1. registry' = Start(registry, i, seen[r]) /\ seen[r] \in Row
        BY <1>1, <1>2, <1>5 DEF StoreStart
    <2>2. ASSUME i \notin disturbed'
          PROVE  registry'[i] = JobOf(rows[i])
        <3>1. i \notin disturbed /\ seen[r].isActive /\ ~Unstartable(seen[r])
            BY <1>1, <1>5, <2>2 DEF StoreStart
        <3>2. JobOf(seen[r]) = seen[r] /\ seen[r].cron \in Valid
            BY <1>5, <3>1 DEF Unstartable, JobOf
        <3> QED
            BY <1>0, <1>3, <2>1, <3>1, <3>2, StartType DEF TypeOK
    <2>3. \A j \in Ids \ {i} : registry'[j] = registry[j]
        <3>1. registry \in [Ids -> Row \cup {None}]
            BY <1>0 DEF TypeOK
        <3> QED
            BY <2>1, <3>1, StartType
    <2> QED
        BY <1>1, <1>2, <2>2, <2>3, LastStep
<1> QED
    BY <1>4, <1>5

\* Before an update or a deletion an undisturbed task that is free is in step (update,
\* destroy).
LEMMA FirstFindKeeps ==
    ASSUME Inv, TypeOK', NEW r \in Requests, UpdateFindBefore(r) \/ DestroyFind(r)
    PROVE  Inv'
<1>0. TypeOK
    BY DEF Inv
<1>1. PICK i \in Ids :
          \/ /\ Begin(r, i, "updateWrite") /\ seen' = seen
             /\ pre' = [pre EXCEPT ![r] = IF rows[i] = None THEN None ELSE rows[i].isActive]
          \/ /\ Begin(r, i, "destroyWrite") /\ pre' = pre
             /\ seen' = [seen EXCEPT ![r] = rows[i]]
    BY DEF UpdateFindBefore, DestroyFind
<1>2. UNCHANGED <<rows, nextId, registry, up>>
    BY DEF UpdateFindBefore, DestroyFind, tableVars
<1>3. /\ pc[r] = "idle" /\ up /\ id'[r] = i
      /\ disturbed' = IF Busy(i) THEN disturbed \cup {i} ELSE disturbed
      /\ \A q \in Requests \ {r} : /\ pc'[q] = pc[q] /\ id'[q] = id[q]
                                   /\ pre'[q] = pre[q] /\ seen'[q] = seen[q]
    BY <1>0, <1>1 DEF Begin, TypeOK
<1>4. OnTask(r, i)
    BY <1>2, <1>3 DEF OnTask
<1>5. i \notin disturbed' => registry[i] = JobOf(rows[i])
    BY <1>3 DEF Inv, InStep
<1>6. RequestInv(r)'
    <2>1. CASE pc'[r] = "updateWrite"
        <3>1. pre'[r] = IF rows[i] = None THEN None ELSE rows[i].isActive
            BY <1>0, <1>1, <2>1 DEF Begin, TypeOK
        <3>2. rows[i] # None => rows[i].isActive \in BOOLEAN
            BY <1>0 DEF TypeOK, Row
        <3>3. pre'[r] = None <=> rows[i] = None
            BY <3>1, <3>2, CronsAssumption
        <3>4. pre'[r] # TRUE => JobOf(rows[i]) = None
            BY <3>1, <3>2 DEF JobOf
        <3> QED
            BY <1>2, <1>3, <1>5, <2>1, <3>3, <3>4 DEF RequestInv, Known, PreKnown
    <2>2. CASE pc'[r] = "destroyWrite"
        <3>1. seen'[r] = rows[i]
            BY <1>0, <1>1, <2>2 DEF Begin, TypeOK
        <3> QED
            BY <1>2, <1>3, <1>5, <2>2, <3>1 DEF RequestInv, Known
    <2> QED
        BY <1>0, <1>1, <2>1, <2>2 DEF Begin, TypeOK
<1>7. FreshRows'
    BY <1>2, FreshRowsStay
<1>8. pc'[r] # "idle"
    BY <1>0, <1>1 DEF Begin, TypeOK
<1> QED
    BY <1>4, <1>6, <1>7, <1>8, OneTask

\* The write of an update keeps whether there is a row, and its job is stopped or started
\* only later (update).
LEMMA UpdateWriteKeeps ==
    ASSUME Inv, TypeOK', NEW r \in Requests, UpdateWrite(r)
    PROVE  Inv'
<1>0. TypeOK /\ RequestInv(r)
    BY DEF Inv
<1>1. PICK i \in Ids : i = id[r] /\ InFlight(r, i) /\ up
    BY InFlightTask DEF UpdateWrite, Continue
<1>2. /\ id'[r] = i /\ pc[r] = "updateWrite" /\ pc'[r] = "updateFind"
      /\ UNCHANGED <<nextId, registry, up, pre, seen, disturbed>>
      /\ \A q \in Requests \ {r} : pc'[q] = pc[q] /\ id'[q] = id[q]
    BY <1>0, <1>1 DEF UpdateWrite, Continue, TypeOK
<1>3. /\ \A j \in Ids \ {i} : rows'[j] = rows[j]
      /\ rows'[i] = None <=> rows[i] = None
    BY <1>0, <1>1, CronsAssumption DEF UpdateWrite, TypeOK, Row
<1>4. OnTask(r, i)
    BY <1>1, <1>2, <1>3 DEF OnTask
<1>5. RequestInv(r)'
    BY <1>0, <1>1, <1>2, <1>3 DEF RequestInv, Known, PreKnown
<1>6. FreshRows'
    BY <1>2, <1>3, FreshRowsStay
<1> QED
    BY <1>2, <1>4, <1>5, <1>6, OneTask

\* An applied update leaves the job of the row it read, unless that cannot start (update).
LEMMA UpdateApplyKeeps ==
    ASSUME Inv, TypeOK', NEW r \in Requests, UpdateApply(r)
    PROVE  Inv'
<1>0. TypeOK /\ RequestInv(r)
    BY DEF Inv
<1>1. PICK i \in Ids : i = id[r] /\ InFlight(r, i)
    BY InFlightTask DEF UpdateApply
<1>2. /\ Forget(r) /\ UNCHANGED <<tableVars, up>> /\ disturbed \subseteq disturbed'
      /\ seen[r] \in Row \cup {None} /\ pre[r] \in BOOLEAN \cup {None}
      /\ pc[r] = "updateApply" /\ registry \in [Ids -> Row \cup {None}]
    BY <1>0 DEF UpdateApply, TypeOK
<1>3. i \notin disturbed => PreKnown(r, i) /\ seen[r] = rows[i]
    BY <1>0, <1>1, <1>2 DEF RequestInv, Known
<1>4. CASE pre[r] = None \/ seen[r] = None
    <2>1. registry' = registry
        BY <1>4 DEF UpdateApply
    <2>2. i \notin disturbed => rows[i] = None /\ registry[i] = None
        BY <1>3, <1>4, CronsAssumption DEF PreKnown
    <2> QED
        BY <1>1, <1>2, <2>1, <2>2, LastStep DEF JobOf
<1>5. CASE ~(pre[r] = None \/ seen[r] = None)
    <2>0. pre[r] \in BOOLEAN /\ seen[r] \in Row /\ seen[r].isActive \in BOOLEAN
        BY <1>2, <1>5 DEF Row
    <2>1. PICK stopped : /\ stopped = IF pre[r] THEN Stop(registry, i) ELSE registry
                         /\ registry' = IF seen[r].isActive
                                        THEN Start(stopped, i, seen[r]) ELSE stopped
        BY <1>1, <1>5 DEF UpdateApply, Applied
    <2>2. /\ stopped \in [Ids -> Row \cup {None}]
          /\ \A j \in Ids \ {i} : stopped[j] = registry[j]
        BY <1>2, <2>0, <2>1, StartType
    <2>3. \A j \in Ids \ {i} : registry'[j] = registry[j]
        BY <2>0, <2>1, <2>2, StartType
    <2>4. ASSUME i \notin disturbed'
          PROVE  registry'[i] = JobOf(rows[i])
        <3>1. i \notin disturbed /\ ~Unstartable(seen[r])
            BY <1>1, <2>4 DEF UpdateApply
        <3>2. stopped[i] = None
            BY <1>2, <1>3, <2>0, <2>1, <3>1, StartType DEF PreKnown
        <3>3. CASE seen[r].isActive
            <4>1. JobOf(seen[r]) = seen[r] /\ seen[r].cron \in Valid
                BY <1>5, <3>1, <3>3 DEF Unstartable, JobOf
            <4> QED
                BY <1>3, <2>0, <2>1, <2>2, <3>1, <3>2, <3>3, <4>1, StartType
        <3>4. CASE ~seen[r].isActive
            BY <1>3, <2>1, <3>1, <3>2, <3>4 DEF JobOf
        <3> QED
            BY <3>3, <3>4
    <2> QED
        BY <1>1, <1>2, <2>3, <2>4, LastStep
<1> QED
    BY <1>4, <1>5

\* A deleted row leaves behind the job its request is about to stop (destroy).
LEMMA DestroyWriteKeeps ==
    ASSUME Inv, TypeOK', NEW r \in Requests, DestroyWrite(r)
    PROVE  Inv'
<1>0. TypeOK /\ RequestInv(r)
    BY DEF Inv
<1>1. PICK i \in Ids : i = id[r] /\ InFlight(r, i) /\ up
    BY InFlightTask DEF DestroyWrite, Continue
<1>2. /\ id'[r] = i /\ pc[r] = "destroyWrite" /\ pc'[r] = "destroyStop"
      /\ UNCHANGED <<nextId, registry, up, pre, seen, disturbed>>
      /\ \A q \in Requests \ {r} : pc'[q] = pc[q] /\ id'[q] = id[q]
      /\ \A j \in Ids \ {i} : rows'[j] = rows[j]
      /\ rows'[i] = None
    BY <1>0, <1>1 DEF DestroyWrite, Continue, TypeOK
<1>3. OnTask(r, i)
    BY <1>1, <1>2 DEF OnTask
<1>4. RequestInv(r)'
    BY <1>0, <1>1, <1>2 DEF RequestInv, Known
<1>5. FreshRows'
    BY <1>2, FreshRowsStay
<1> QED
    BY <1>2, <1>3, <1>4, <1>5, OneTask

\* A deleted task is left without a job (destroy).
LEMMA DestroyStopKeeps ==
    ASSUME Inv, TypeOK', NEW r \in Requests, DestroyStop(r)
    PROVE  Inv'
<1>0. TypeOK /\ RequestInv(r)
    BY DEF Inv
<1>1. PICK i \in Ids : i = id[r] /\ InFlight(r, i)
    BY InFlightTask DEF DestroyStop
<1>2. /\ Forget(r) /\ UNCHANGED <<tableVars, up>> /\ disturbed' = disturbed
      /\ pc[r] = "destroyStop" /\ registry \in [Ids -> Row \cup {None}]
    BY <1>0 DEF DestroyStop, TypeOK
<1>3. /\ \A j \in Ids \ {i} : registry'[j] = registry[j]
      /\ registry'[i] = None \/ (seen[r] = None /\ registry' = registry)
    BY <1>1, <1>2 DEF DestroyStop, Stop
<1>4. i \notin disturbed => registry'[i] = JobOf(rows[i])
    BY <1>0, <1>1, <1>2, <1>3 DEF RequestInv, Known, JobOf
<1> QED
    BY <1>1, <1>2, <1>3, <1>4, LastStep

\* A failed query either precedes every write or disturbs the task.
LEMMA FaultKeeps ==
    ASSUME Inv, TypeOK', NEW r \in Requests, Fault(r)
    PROVE  Inv'
<1>0. TypeOK /\ RequestInv(r)
    BY DEF Inv
<1>1. PICK i \in Ids : i = id[r] /\ InFlight(r, i)
    BY InFlightTask DEF Fault, Written
<1>2. /\ Forget(r) /\ UNCHANGED <<tableVars, registry, up>> /\ disturbed \subseteq disturbed'
      /\ pc[r] \in Written => i \in disturbed'
    BY <1>1 DEF Fault
<1>3. pc[r] \notin Written => pc[r] \in {"updateWrite", "destroyWrite"}
    BY DEF Fault
<1>4. i \notin disturbed' => registry[i] = JobOf(rows[i])
    BY <1>0, <1>1, <1>2, <1>3 DEF RequestInv, Known
<1> QED
    BY <1>1, <1>2, <1>4, LastStep

-----------------------------------------------------------------------------
(* The process. *)

\* A boot puts every task in step or serves nothing, and no request outlives a restart.
LEMMA ProcessKeeps ==
    ASSUME Inv, Boot \/ BootThrows \/ Restart
    PROVE  Inv'
<1> USE CronsAssumption, BoundsAssumption
<1>0. TypeOK /\ DownIsIdle /\ FreshRows /\ \A r \in Requests : RequestInv(r)
    BY DEF Inv
<1>1. CASE Boot
    <2>1. \A r \in Requests : pc'[r] = "idle"
        BY <1>0, <1>1 DEF Boot, DownIsIdle, requestVars
    <2>2. \A i \in Ids : JobOf(rows[i]) \in Row \cup {None}
        BY <1>0 DEF TypeOK, JobOf
    <2>3. TypeOK'
        BY <1>0, <1>1, <2>2 DEF TypeOK, Boot, tableVars, requestVars, bounds
    <2>4. FreshRows'
        BY <1>0, <1>1 DEF FreshRows, Boot, tableVars
    <2>5. InStep'
        BY <1>1 DEF InStep, Boot, tableVars, JobOf
    <2> QED
        BY <2>1, <2>3, <2>4, <2>5 DEF Inv, Alone, DownIsIdle, RequestInv, InFlight
<1>2. CASE Restart
    <2>1. (\A r \in Requests : pc'[r] = "idle") /\ ~up'
        BY <1>2 DEF Restart
    <2>2. TypeOK'
        <3>1. UNCHANGED <<rows, nextId, disturbed, faults>> /\ restarts' \in Nat
            BY <1>0, <1>2 DEF TypeOK, Restart, tableVars
        <3>2. registry' \in [Ids -> Row \cup {None}] /\ up' \in BOOLEAN
            BY <1>2 DEF Restart
        <3>3. /\ pc' \in [Requests -> Awaits \cup {"idle"}]
              /\ id' \in [Requests -> Ids \cup {0}]
              /\ pre' \in [Requests -> BOOLEAN \cup {None}]
              /\ seen' \in [Requests -> Row \cup {None}]
            BY <1>2 DEF Restart
        <3> QED
            BY <1>0, <3>1, <3>2, <3>3 DEF TypeOK
    <2>3. FreshRows'
        BY <1>0, <1>2 DEF FreshRows, Restart, tableVars
    <2> QED
        BY <2>1, <2>2, <2>3 DEF Inv, Alone, DownIsIdle, RequestInv, InFlight, InStep
<1>3. CASE BootThrows
    <2>1. /\ UNCHANGED <<rows, nextId, up, pc, id, pre, seen, disturbed, faults, restarts>>
          /\ ~up /\ \A r \in Requests : pc[r] = "idle"
        BY <1>0, <1>3 DEF BootThrows, DownIsIdle, tableVars, requestVars, bounds
    <2>2. registry' \in [Ids -> Row \cup {None}]
        BY <1>0, <1>3 DEF TypeOK, BootThrows
    <2>3. TypeOK'
        BY <1>0, <2>1, <2>2 DEF TypeOK
    <2>4. FreshRows'
        BY <1>0, <1>3, <2>1 DEF FreshRows, BootThrows, JobOf
    <2> QED
        BY <2>1, <2>3, <2>4 DEF Inv, Alone, DownIsIdle, RequestInv, InFlight, InStep
<1> QED
    BY <1>1, <1>2, <1>3

\* Every step of a request keeps the invariant (TaskService).
LEMMA RequestKeeps ==
    ASSUME Inv, NEW r \in Requests, Request(r)
    PROVE  Inv'
<1>1. TypeOK'
    BY RequestTypes
<1> QED
    BY <1>1, StoreInsertKeeps, FindKeeps, StoreStartKeeps, FirstFindKeeps, UpdateWriteKeeps,
       UpdateApplyKeeps, DestroyWriteKeeps, DestroyStopKeeps, FaultKeeps DEF Request

\* The variables of the invariant are those of the specification.
LEMMA StutterKeeps ==
    ASSUME Inv, UNCHANGED vars
    PROVE  Inv'
<1>1. UNCHANGED <<rows, nextId, registry, up, pc, id, pre, seen, disturbed, faults, restarts>>
    BY DEF vars, tableVars, requestVars, bounds
<1>2. TypeOK' /\ Alone' /\ FreshRows' /\ DownIsIdle' /\ InStep'
    BY <1>1 DEF Inv, TypeOK, Alone, FreshRows, DownIsIdle, InStep, InFlight, Busy
<1>3. ASSUME NEW r \in Requests
      PROVE  RequestInv(r)'
    <2>1. PreKnown(r, id[r]) => PreKnown(r, id[r])'
        BY <1>1 DEF PreKnown
    <2> QED
        BY <1>1, <2>1 DEF Inv, RequestInv, Known
<1> QED
    BY <1>2, <1>3 DEF Inv

\* A process that has served nothing yet is in step.
LEMMA InvInit ==
    ASSUME Init
    PROVE  Inv
<1>1. TypeOK
    BY CronsAssumption, BoundsAssumption DEF Init, TypeOK, Ids
<1> QED
    BY <1>1 DEF Init, Inv, Alone, FreshRows, DownIsIdle, InStep, RequestInv, InFlight

\* What each await may rely on holds at every step of the service (TaskService).
THEOREM Invariance == Spec => []Inv
<1>1. Inv /\ [Next]_vars => Inv'
    BY ProcessKeeps, RequestKeeps, StutterKeeps DEF Next
<1> QED
    BY InvInit, <1>1, PTL DEF Spec

\* Every variable keeps its type.
THEOREM TypesAreCorrect == Spec => []TypeOK
<1>1. Inv => TypeOK
    BY DEF Inv
<1> QED
    BY Invariance, <1>1, PTL

\* Outside of the cases it lists, the job of a served task is the one its row asks for
\* (TaskService.store, update, destroy, onApplicationBootstrap).
THEOREM RegistryIsInStep == Spec => []InStep
<1>1. Inv => InStep
    BY DEF Inv
<1> QED
    BY Invariance, <1>1, PTL
=============================================================================
