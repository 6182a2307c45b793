------------------------- MODULE CategorizationProofs -------------------------
(***************************************************************************)
(* For any protocols, links and contracts, any page size and any number of *)
(* parallel items, requests, aborts, failures and restarts: a link that is *)
(* marked was scanned, and a task over unprocessed links leaves at most    *)
(* half of the protocols that had any. The invariant says what a job knows *)
(* of its page, and that its offset never runs ahead of the protocols that *)
(* it is done with.                                                        *)
(***************************************************************************)
EXTENDS Categorization, FiniteSetTheorems, WellFoundedInduction, TLAPS

\* A task over links that are not processed.
Unprocessed == ReadsLinks(active.command) /\ ~active.includeProcessed

\* Where a job is. The items of its page that are neither waiting nor in flight were
\* scanned, and while any wait there is one in flight.
JobInv ==
    active # NoJob =>
        /\ active.at = "queue" => active.command = "start_fetching" /\ active.skip < Len(Daily)
        /\ active.at # "queue" => active.command \in Walking
        /\ active.at \in {"items", "mark"} =>
              /\ active.page \subseteq ItemsOf(active.command)
              /\ active.todo \cup active.inFlight \cup active.found \subseteq active.page
        /\ active.at = "items" /\ active.inFlight = {} => active.todo = {}
        /\ active.at = "items" /\ ReadsLinks(active.command) =>
              \A i \in active.page \ (active.todo \cup active.inFlight) : i[2] \in scanned
        /\ active.at = "mark" =>
              /\ ReadsLinks(active.command)
              /\ \A i \in active.page : i[2] \in scanned

\* The protocols with links that the job has to do, and those that it found links of and that
\* have none left.
Left == Owners(active.before \ processed)
Done == Owners(active.before) \ Left

\* What a task over unprocessed links found when it started and is not processed is all that
\* it pages over now. Its page has all of that of its protocols, and the offset is at most
\* the number of protocols that it is done with, those of the page under way included.
OffsetInv ==
    active # NoJob /\ Unprocessed =>
        /\ active.before \ processed = LinksOf(active.command, active.includeProcessed)
        /\ active.at = "page" => active.skip <= Cardinality(Done)
        /\ active.at \in {"items", "mark"} =>
              /\ active.page \subseteq active.before \ processed
              /\ \A r \in active.before \ processed : r[1] \in Owners(active.page) => r \in active.page
              /\ active.skip <= Cardinality(Done \cup Owners(active.page))

Inv == TypeOK /\ MarkedWasScanned /\ JobInv /\ OffsetInv

-----------------------------------------------------------------------------
(* Sets of numbers and their first elements. *)

\* What a table or a page holds is finite, and can be counted.
LEMMA Countable ==
    ASSUME NEW S \in SUBSET Listed
    PROVE  IsFiniteSet(S) /\ Cardinality(S) \in Nat /\ S \subseteq Nat
<1>1. 1 \in Int /\ NumProtocols \in Int /\ Listed \subseteq Nat
    BY NumbersAssumption DEF Listed
<1>2. IsFiniteSet(Listed)
    BY <1>1, FS_Interval DEF Listed
<1>3. IsFiniteSet(S)
    BY <1>2, FS_Subset
<1> QED
    BY <1>1, <1>3, FS_CardinalityType

\* A set of numbers that is not empty has a least one.
LEMMA LeastNumber ==
    ASSUME NEW S \in SUBSET Nat, S # {}
    PROVE  \E m \in S : \A k \in S : m <= k
<1> DEFINE Less == {p \in Nat \X Nat : p[1] < p[2]}
<1>1. IsWellFoundedOn(Less, Nat)
    BY NatLessThanWellFounded DEF OpToRel
<1>2. \E m \in S : \A k \in S : ~(<<k, m>> \in Less)
    <2> HIDE DEF Less
    <2> QED
        BY <1>1, WFMin
<1>3. PICK m \in S : \A k \in S : ~(<<k, m>> \in Less)
    BY <1>2
<1>4. ASSUME NEW k \in S
      PROVE  m <= k
    <2>1. k \in Nat /\ m \in Nat
        OBVIOUS
    <2>2. ~(<<k, m>> \in {p \in Nat \X Nat : p[1] < p[2]})
        BY <1>3
    <2> QED
        BY <2>1, <2>2
<1> QED
    BY <1>4

\* Ids of protocols have a greatest one, too.
LEMMA GreatestNumber ==
    ASSUME NEW S \in SUBSET Listed, S # {}
    PROVE  \E m \in S : \A k \in S : k <= m
<1> DEFINE T == {NumProtocols - x : x \in S}
<1>1. NumProtocols \in Nat /\ \A x \in S : x \in Nat /\ x <= NumProtocols
    BY NumbersAssumption DEF Listed
<1>2. T \in SUBSET Nat /\ T # {}
    BY <1>1
<1>3. \E m \in T : \A k \in T : m <= k
    <2> HIDE DEF T
    <2> QED
        BY <1>2, LeastNumber
<1>4. PICK x \in S : \A y \in S : NumProtocols - x <= NumProtocols - y
    BY <1>3
<1>5. \A y \in S : y <= x
    <2> SUFFICES ASSUME NEW y \in S PROVE y <= x
        OBVIOUS
    <2>1. x \in Nat /\ y \in Nat /\ NumProtocols \in Nat /\ NumProtocols - x <= NumProtocols - y
        BY <1>1, <1>4
    <2> QED
        BY <2>1
<1> QED
    BY <1>5

\* When the page after the first k rows is empty there are no more than k rows (skip and
\* take of the repositories).
LEMMA EmptyPage ==
    ASSUME NEW S \in SUBSET Listed, NEW k \in Nat, NEW n \in Nat \ {0},
           First(S, k + n) \ First(S, k) = {}
    PROVE  Cardinality(S) <= k
<1> DEFINE UpTo(x) == {y \in S : y <= x}
           Rest == S \ First(S, k)
<1>1. S \subseteq Nat /\ \A T \in SUBSET S : IsFiniteSet(T) /\ Cardinality(T) \in Nat
    <2>1. \A T \in SUBSET S : T \in SUBSET Listed
        OBVIOUS
    <2> QED
        BY <2>1, Countable
<1>2. Rest = {}
    <2> SUFFICES ASSUME Rest # {} PROVE FALSE
        OBVIOUS
    <2>1. PICK u \in Rest : \A y \in Rest : u <= y
        <3>1. Rest \in SUBSET Nat
            BY <1>1
        <3> HIDE DEF Rest
        <3> QED
            BY <3>1, LeastNumber
    <2> DEFINE Below == {y \in S : y < u}
    <2>2. u \in S /\ u \in Nat /\ Below \in SUBSET S /\ u \notin Below
        BY <1>1, <2>1
    <2>3. \A y \in Below : y \in First(S, k)
        BY <1>1, <2>1
    <2>4. Cardinality(Below) <= k
        <3>1. CASE Below = {}
            BY <3>1, FS_EmptySet
        <3>2. CASE Below # {}
            <4>1. PICK v \in Below : \A y \in Below : y <= v
                <5>1. Below \in SUBSET Listed
                    BY <2>2
                <5> HIDE DEF Below
                <5> QED
                    BY <3>2, <5>1, GreatestNumber
            <4>2. UpTo(v) = Below
                <5>1. \A y \in S : y \in Nat /\ v \in Nat /\ u \in Nat /\ v < u
                    BY <1>1, <2>2
                <5>2. \A y \in S : y <= v <=> y < u
                    BY <4>1, <5>1
                <5> QED
                    BY <5>2
            <4>3. Cardinality(UpTo(v)) <= k
                BY <2>3, <4>1 DEF First
            <4> QED
                BY <4>2, <4>3
        <3> QED
            BY <3>1, <3>2
    <2>5. UpTo(u) = Below \cup {u}
        <3>1. \A y \in S : y \in Nat
            BY <1>1
        <3>2. \A y \in S : y <= u <=> (y < u \/ y = u)
            BY <2>2, <3>1
        <3> QED
            BY <2>2, <3>2
    <2>6. Cardinality(UpTo(u)) = Cardinality(Below) + 1
        <3>1. IsFiniteSet(Below)
            BY <1>1, <2>2
        <3> HIDE DEF Below
        <3> QED
            BY <2>2, <2>5, <3>1, FS_AddElement
    <2>7. Cardinality(Below) \in Nat
        BY <1>1, <2>2
    <2>8. Cardinality(UpTo(u)) <= k + n
        BY <2>4, <2>6, <2>7
    <2>9. u \in First(S, k + n)
        BY <2>2, <2>8 DEF First
    <2> QED
        BY <2>1, <2>9
<1>3. CASE S = {}
    BY <1>3, FS_EmptySet
<1>4. CASE S # {}
    <2>1. PICK v \in S : \A y \in S : y <= v
        BY <1>4, GreatestNumber
    <2>2. UpTo(v) = S
        BY <2>1
    <2>3. v \in First(S, k)
        BY <1>2
    <2>4. Cardinality(UpTo(v)) <= k
        BY <2>3 DEF First
    <2> QED
        BY <2>2, <2>4
<1> QED
    BY <1>3, <1>4

-----------------------------------------------------------------------------
(* Items and their protocols. *)

\* Items are a finite number of pairs of a protocol with something.
LEMMA ItemsArePairs ==
    ASSUME NEW S \in SUBSET Items
    PROVE  /\ IsFiniteSet(S) /\ Cardinality(S) \in Nat
           /\ Owners(S) \in SUBSET Listed
<1>1. IsFiniteSet(Items)
    <2>1. IsFiniteSet(Listed)
        BY Countable
    <2>2. IsFiniteSet({Main})
        BY FS_Singleton
    <2>3. IsFiniteSet(Listed \X {Main}) /\ IsFiniteSet(Links) /\ IsFiniteSet(Contracts)
        BY <2>1, <2>2, PagesAssumption, FS_Product DEF Links, Contracts
    <2> QED
        BY <2>3, FS_Union DEF Items
<1>2. IsFiniteSet(S)
    BY <1>1, FS_Subset
<1>3. \A i \in S : i[1] \in Listed
    BY DEF Items, Links, Contracts
<1> QED
    BY <1>2, <1>3, FS_CardinalityType DEF Owners

\* The items of a task are items.
LEMMA ItemsOfTasks ==
    ASSUME NEW command
    PROVE  /\ ItemsOf(command) \subseteq Items
           /\ ReadsLinks(command) => /\ ItemsOf(command) \subseteq Links
                                     /\ ItemsOf(command) = Listed \X UrlsOf(command)
<1>1. UrlsOf(command) \subseteq Urls
    BY DEF UrlsOf, Urls
<1> QED
    BY <1>1 DEF ItemsOf, Items, Links, ReadsLinks

\* Of items that are not empty some are taken (take of the repositories, parallelLimit).
LEMMA SomeAreTaken ==
    ASSUME NEW S \in SUBSET Items, NEW n \in Nat \ {0}, NEW T \in Take(n, S)
    PROVE  T \subseteq S /\ (S # {} => T # {})
<1>1. T \subseteq S /\ Cardinality(T) = Least(n, Cardinality(S))
    BY DEF Take
<1>2. ASSUME S # {}, T = {}
      PROVE  FALSE
    <2>1. Cardinality(S) \in Nat /\ IsFiniteSet(S)
        BY ItemsArePairs
    <2>2. Cardinality(S) # 0
        BY <1>2, <2>1, FS_EmptySet
    <2>3. Cardinality(T) = 0
        BY <1>2, FS_EmptySet
    <2> QED
        BY <1>1, <2>1, <2>2, <2>3 DEF Least
<1> QED
    BY <1>1, <1>2

-----------------------------------------------------------------------------
(* Types. *)

\* What the variables but the queue, the job and the scans hold.
TablesOK ==
    /\ protocols \subseteq Listed
    /\ links \subseteq Links /\ processed \subseteq Links
    /\ contracts \subseteq Contracts /\ fetched \subseteq Contracts /\ analysed \subseteq Contracts
    /\ scanned \subseteq Urls /\ missed \subseteq Urls

\* The types in two parts.
LEMMA TypesInParts ==
    TypeOK <=> /\ queue \in Seq(Job)
               /\ active = NoJob \/ active \in ActiveJob
               /\ strays \in [Scans -> Nat]
               /\ abortFlag \in BOOLEAN /\ running \in BOOLEAN
               /\ TablesOK
               /\ requests \in Nat /\ aborts \in Nat /\ faults \in Nat
BY DEF TypeOK, TablesOK

\* A task pages over its items (the findings of the repositories).
LEMMA SourceTypes ==
    ASSUME TablesOK, NEW command \in Walking, NEW again
    PROVE  Source(command, again) \in SUBSET ItemsOf(command)
<1>1. CASE ReadsLinks(command)
    <2>1. Source(command, again) = LinksOf(command, again)
        BY <1>1 DEF Source, ReadsLinks
    <2>2. \A r \in links : r[2] \in UrlsOf(command) => r \in Listed \X UrlsOf(command)
        BY DEF TablesOK, Links
    <2> QED
        BY <1>1, <2>1, <2>2, ItemsOfTasks DEF LinksOf
<1>2. CASE ~ReadsLinks(command)
    BY <1>2 DEF TablesOK, Source, ItemsOf, ReadsLinks, Walking
<1> QED
    BY <1>1, <1>2

\* A page is a part of what the task pages over.
LEMMA PageTypes ==
    ASSUME TablesOK, NEW command \in Walking, NEW again, NEW skip \in Nat,
           NEW page \in Pages(command, again, skip)
    PROVE  /\ page \subseteq Source(command, again)
           /\ page \in SUBSET ItemsOf(command)
<1>1. page \subseteq Source(command, again)
    BY DEF Pages, Take
<1> QED
    BY <1>1, SourceTypes

\* The end of a scan keeps the types of the tables, and adds to what was scanned.
LEMMA WriteItemTypes ==
    ASSUME TablesOK, faults \in Nat, NEW command \in Walking, NEW i \in ItemsOf(command),
           NEW ok \in BOOLEAN, WriteItem(command, i, ok)
    PROVE  /\ TablesOK' /\ faults' \in Nat
           /\ scanned \subseteq scanned'
           /\ ReadsLinks(command) => i[2] \in scanned'
<1>1. i \in Items /\ i[1] \in Listed
    BY ItemsOfTasks DEF Items, Links, Contracts
<1>2. ReadsLinks(command) => i[2] \in Urls
    BY ItemsOfTasks DEF Links
<1>3. contracts' \subseteq Contracts
    <2>1. CASE command = "parse_protocols_docs_page" /\ ok
        <3>1. i[2] \in DocsUrls
            BY <2>1 DEF ItemsOf, ReadsLinks, UrlsOf
        <3>2. DocsPage[i[2]] \subseteq Addresses
            BY <3>1, PagesAssumption
        <3> QED
            BY <1>1, <2>1, <3>2 DEF WriteItem, TablesOK, Contracts
    <2> QED
        BY <2>1 DEF WriteItem, TablesOK
<1>4. fetched' \subseteq Contracts /\ analysed' \subseteq Contracts
    <2>1. command \in {"fetch_abi", "analyse_contracts_against_templates"} => i \in Contracts
        BY DEF ItemsOf, ReadsLinks
    <2> QED
        BY <2>1 DEF WriteItem, TablesOK
<1>5. scanned' \subseteq Urls /\ missed' \subseteq Urls /\ protocols' \subseteq Listed
    BY <1>1, <1>2 DEF WriteItem, TablesOK
<1>6. links' = links /\ processed' = processed /\ faults' \in Nat
    BY DEF WriteItem
<1>7. scanned \subseteq scanned' /\ (ReadsLinks(command) => i[2] \in scanned')
    BY DEF WriteItem
<1> QED
    BY <1>3, <1>4, <1>5, <1>6, <1>7 DEF TablesOK

\* An ended job adds to the scans that go on (LeaveBehind).
LEMMA LeaveBehindTypes ==
    ASSUME strays \in [Scans -> Nat], NEW items, LeaveBehind(items)
    PROVE  strays' \in [Scans -> Nat]
BY DEF LeaveBehind

\* Initially nothing is queued, running or stored.
LEMMA InitInv == Init => Inv
<1> SUFFICES ASSUME Init PROVE Inv
    OBVIOUS
<1>1. TypeOK
    <2>1. TablesOK
        BY DEF Init, TablesOK
    <2>2. queue \in Seq(Job) /\ strays \in [Scans -> Nat]
        BY DEF Init, NoStrays
    <2> QED
        BY <2>1, <2>2, TypesInParts DEF Init
<1>2. MarkedWasScanned /\ JobInv /\ OffsetInv
    BY DEF Init, MarkedWasScanned, JobInv, OffsetInv
<1> QED
    BY <1>1, <1>2 DEF Inv

-----------------------------------------------------------------------------
(* The invariant, one operation after the other. *)

\* The parts of the invariant at hand.
LEMMA InvParts ==
    ASSUME Inv
    PROVE  /\ queue \in Seq(Job) /\ (active = NoJob \/ active \in ActiveJob)
           /\ strays \in [Scans -> Nat]
           /\ abortFlag \in BOOLEAN /\ running \in BOOLEAN
           /\ TablesOK
           /\ requests \in Nat /\ aborts \in Nat /\ faults \in Nat
           /\ MarkedWasScanned /\ JobInv /\ OffsetInv
BY TypesInParts DEF Inv

\* A job that is not touched, with tables that are not touched, stays as good as it is.
LEMMA JobUntouched ==
    ASSUME Inv, active' = active, UNCHANGED <<tables, history>>
    PROVE  TablesOK' /\ MarkedWasScanned' /\ JobInv' /\ OffsetInv'
<1>1. TablesOK /\ MarkedWasScanned /\ JobInv /\ OffsetInv
    BY InvParts
<1>2. UNCHANGED <<protocols, links, processed, contracts, fetched, analysed, scanned, missed>>
    BY DEF tables, history
<1> QED
    BY <1>1, <1>2 DEF TablesOK, MarkedWasScanned, JobInv, OffsetInv, Unprocessed, Left, Done,
       Owners, LinksOf

\* Requests, the timer and aborts only touch the queue and the flag (TasksService).
LEMMA ServiceStep ==
    ASSUME Inv, CronTask \/ (\E job \in Requests : RunCommand(job)) \/ CleanQueue \/ AbortTask
    PROVE  Inv'
<1>1. active' = active /\ strays' = strays /\ running' = running /\ UNCHANGED <<tables, history>>
    BY DEF CronTask, RunCommand, CleanQueue, AbortTask
<1>2. queue' \in Seq(Job)
    <2>1. queue \in Seq(Job)
        BY InvParts
    <2>2. [command |-> "start_fetching", includeProcessed |-> FALSE] \in Job
        BY DEF Job
    <2>3. Requests \subseteq Job
        BY JobsAssumption
    <2>4. CASE CronTask
        BY <2>1, <2>2, <2>4 DEF CronTask, Queue
    <2>5. CASE \E job \in Requests : RunCommand(job)
        BY <2>1, <2>3, <2>5 DEF RunCommand, Queue
    <2>6. CASE CleanQueue \/ AbortTask
        <3>1. queue' = <<>> \/ queue' = queue
            BY <2>6 DEF CleanQueue, AbortTask
        <3>2. <<>> \in Seq(Job)
            OBVIOUS
        <3> QED
            BY <2>1, <3>1, <3>2
    <2> QED
        BY <2>4, <2>5, <2>6
<1>3. abortFlag' \in BOOLEAN /\ requests' \in Nat /\ aborts' \in Nat /\ faults' \in Nat
    <2>1. requests \in Nat /\ aborts \in Nat /\ faults \in Nat
        BY InvParts
    <2>2. requests' \in Nat /\ aborts' \in Nat /\ faults' \in Nat
        BY <2>1 DEF CronTask, RunCommand, CleanQueue, AbortTask, bounds
    <2>3. abortFlag' = abortFlag \/ abortFlag' = TRUE
        BY DEF CronTask, RunCommand, CleanQueue, AbortTask
    <2> QED
        BY <2>2, <2>3, InvParts
<1>4. TablesOK' /\ MarkedWasScanned' /\ JobInv' /\ OffsetInv'
    BY <1>1, JobUntouched
<1>5. TypeOK'
    BY <1>1, <1>2, <1>3, <1>4, InvParts, TypesInParts DEF TypeOK, TablesOK
<1> QED
    BY <1>4, <1>5 DEF Inv

\* A failure or a restart leaves no job (the job fails, maxStalledCount 0).
LEMMA FailureStep ==
    ASSUME Inv, Fail \/ Restart
    PROVE  Inv'
<1>1. /\ active' = NoJob /\ queue' = queue /\ requests' = requests /\ aborts' = aborts
      /\ UNCHANGED <<protocols, links, processed, contracts, fetched, analysed, scanned, missed>>
    BY DEF Fail, Restart, tables, history
<1>2. strays' \in [Scans -> Nat]
    <2>1. strays \in [Scans -> Nat]
        BY InvParts
    <2>2. CASE Fail
        <3>1. strays' = strays \/ \E items : LeaveBehind(items)
            BY <2>2 DEF Fail
        <3> QED
            BY <2>1, <3>1, LeaveBehindTypes
    <2>3. CASE Restart
        BY <2>3 DEF Restart, NoStrays
    <2> QED
        BY <2>2, <2>3
<1>3. abortFlag' \in BOOLEAN /\ running' \in BOOLEAN /\ faults' \in Nat
    <2>1. faults' = faults + 1
        BY DEF Fail, Restart
    <2>2. (abortFlag' = abortFlag \/ abortFlag' = FALSE) /\ (running' = running \/ running' = FALSE)
        BY DEF Fail, Restart
    <2>3. faults' \in Nat
        BY <2>1, InvParts
    <2> QED
        BY <2>2, <2>3, InvParts, Zenon
<1>4. TypeOK'
    BY <1>1, <1>2, <1>3, InvParts DEF TypeOK, TablesOK
<1>5. MarkedWasScanned' /\ JobInv' /\ OffsetInv'
    BY <1>1, InvParts DEF MarkedWasScanned, JobInv, OffsetInv
<1> QED
    BY <1>4, <1>5 DEF Inv

\* A job starts with an offset of zero and nothing done (TasksProcessor).
LEMMA TakeJobStep ==
    ASSUME Inv, TakeJob
    PROVE  Inv'
<1> DEFINE job == Head(queue)
           source == Source(job.command, job.includeProcessed)
           Fresh(at, before) ==
               [command |-> job.command, includeProcessed |-> job.includeProcessed, at |-> at,
                skip |-> 0, page |-> {}, todo |-> {}, inFlight |-> {}, found |-> {}, before |-> before]
<1>1. job \in Job /\ queue' \in Seq(Job)
    BY InvParts DEF TakeJob
<1>2. /\ strays' = strays /\ abortFlag' = abortFlag
      /\ requests' = requests /\ aborts' = aborts /\ faults' = faults
      /\ UNCHANGED <<protocols, links, processed, contracts, fetched, analysed, scanned, missed>>
    BY DEF TakeJob, tables, history, bounds
<1>3. \/ active' = NoJob
      \/ job.command = "start_fetching" /\ active' = Fresh("queue", {})
      \/ job.command \in Walking /\ active' = Fresh("page", source)
    BY <1>1 DEF TakeJob, Started, Job
<1>4. active' = NoJob \/ active' \in ActiveJob
    <2>1. job.command \in Walking => source \in SUBSET Items
        BY InvParts, SourceTypes, ItemsOfTasks
    <2> QED
        BY <1>1, <1>3, <2>1 DEF ActiveJob, Job
<1>5. TypeOK'
    BY <1>1, <1>2, <1>4, InvParts DEF TakeJob, TypeOK, TablesOK
<1>6. MarkedWasScanned'
    BY <1>2, InvParts DEF MarkedWasScanned
<1>7. JobInv'
    BY <1>3 DEF JobInv, Daily
<1>8. OffsetInv'
    <2> SUFFICES ASSUME active' # NoJob, Unprocessed'
                 PROVE  /\ active'.before \ processed' = LinksOf(active.command, active.includeProcessed)'
                        /\ active'.at = "page"
                        /\ active'.skip <= Cardinality(Done')
        BY DEF OffsetInv
    <2>1. job.command \in Walking /\ active' = Fresh("page", source) /\ ReadsLinks(job.command)
        BY <1>3 DEF Unprocessed, ReadsLinks
    <2>2. job.includeProcessed = FALSE
        BY <1>1, <2>1 DEF Unprocessed, Job
    <2>3. source = LinksOf(job.command, FALSE)
        BY <2>1, <2>2 DEF ReadsLinks, Source
    <2>4. source \ processed = source /\ source \in SUBSET Items
        BY <2>1, <2>3, InvParts, SourceTypes, ItemsOfTasks DEF LinksOf
    <2>5. LinksOf(active.command, active.includeProcessed)' = LinksOf(job.command, FALSE)
        BY <1>2, <2>1, <2>2 DEF LinksOf
    <2>6. Cardinality(Done') \in Nat
        <3>1. Done' \in SUBSET Listed
            BY <2>1, <2>4, ItemsArePairs DEF Done
        <3> QED
            BY <3>1, Countable
    <2>7. active'.before = source /\ active'.at = "page" /\ active'.skip = 0
        BY <2>1
    <2> HIDE DEF source, job
    <2>8. active'.before \ processed' = LinksOf(active.command, active.includeProcessed)'
        BY <1>2, <2>3, <2>4, <2>5, <2>7
    <2> QED
        BY <2>6, <2>7, <2>8
<1> QED
    BY <1>5, <1>6, <1>7, <1>8 DEF Inv

\* start_fetching queues one task after the other (TasksProcessor).
LEMMA QueueDailyStep ==
    ASSUME Inv, QueueDaily
    PROVE  Inv'
<1>1. /\ active \in ActiveJob /\ active.at = "queue" /\ active.command = "start_fetching"
      /\ active.skip \in 0..5 /\ active.includeProcessed \in BOOLEAN
    BY InvParts DEF QueueDaily, JobInv, ActiveJob, Daily
<1>2. Daily[active.skip + 1] \in Walking
    BY <1>1 DEF Daily, Walking
<1>3. queue' \in Seq(Job)
    BY <1>1, <1>2, InvParts DEF QueueDaily, Queue, Job
<1>4. /\ strays' = strays /\ abortFlag' = abortFlag /\ running' = running
      /\ requests' = requests /\ aborts' = aborts /\ faults' = faults
      /\ UNCHANGED <<protocols, links, processed, contracts, fetched, analysed, scanned, missed>>
    BY DEF QueueDaily, tables, history, bounds
<1>5. \/ active' = NoJob
      \/ active.skip < 5 /\ active' = [active EXCEPT !.skip = @ + 1]
    BY <1>1 DEF QueueDaily, Daily
<1>6. active' = NoJob \/ (active' \in ActiveJob /\ active'.skip < 6 /\ active'.at = "queue"
                            /\ active'.command = "start_fetching")
    BY <1>1, <1>5 DEF ActiveJob
<1>7. TypeOK'
    BY <1>3, <1>4, <1>6, InvParts DEF TypeOK, TablesOK
<1>8. MarkedWasScanned' /\ JobInv' /\ OffsetInv'
    BY <1>4, <1>6, InvParts DEF MarkedWasScanned, JobInv, OffsetInv, Unprocessed, ReadsLinks, Daily
<1> QED
    BY <1>7, <1>8 DEF Inv

\* A page of protocols is what there is to do for them (findWithLinksLimit).
LEMMA PageOfProtocols ==
    ASSUME NEW command, ReadsLinks(command), NEW again, NEW skip \in Nat,
           NEW page \in Pages(command, again, skip)
    PROVE  /\ page \subseteq LinksOf(command, again)
           /\ \A r \in LinksOf(command, again) : r[1] \in Owners(page) => r \in page
           /\ Advance(command, page) = Cardinality(Owners(page))
           /\ page = {} => First(Owners(LinksOf(command, again)), skip + PageSize)
                             \ First(Owners(LinksOf(command, again)), skip) = {}
<1> DEFINE S == LinksOf(command, again)
           chosen == First(Owners(S), skip + PageSize) \ First(Owners(S), skip)
<1>1. page = {i \in S : i[1] \in chosen}
    BY DEF Pages, Source, ReadsLinks
<1>2. chosen \subseteq Owners(S)
    BY DEF First
<1> HIDE DEF S, chosen
<1>3. Advance(command, page) = Cardinality(Owners(page))
    BY DEF Advance, ReadsLinks
<1>4. page = {} => chosen = {}
    BY <1>1, <1>2 DEF Owners
<1>5. page \subseteq S /\ \A r \in S : r[1] \in Owners(page) => r \in page
    BY <1>1 DEF Owners
<1> QED
    BY <1>3, <1>4, <1>5 DEF S, chosen

\* The protocols that a job is done with are not those that it still has links of.
LEMMA DoneAndLeft ==
    ASSUME Inv, active # NoJob
    PROVE  /\ Done \in SUBSET Listed /\ Left \in SUBSET Listed
           /\ IsFiniteSet(Done) /\ IsFiniteSet(Left)
           /\ Cardinality(Done) \in Nat /\ Cardinality(Left) \in Nat
           /\ Done \cap Left = {} /\ Done \cup Left = Owners(active.before)
<1>1. active.before \in SUBSET Items /\ active.before \ processed \in SUBSET Items
    BY InvParts DEF ActiveJob
<1>2. Owners(active.before) \in SUBSET Listed /\ Left \in SUBSET Listed
    BY <1>1, ItemsArePairs DEF Left
<1>3. Left \subseteq Owners(active.before)
    BY DEF Left, Owners
<1>4. Done \in SUBSET Listed /\ Done \cap Left = {} /\ Done \cup Left = Owners(active.before)
    BY <1>2, <1>3 DEF Done
<1> QED
    BY <1>2, <1>4, Countable

\* A page that is not empty has items in flight and counts in the offset (skip += length);
\* the job goes on.
LEMMA NextPageStep ==
    ASSUME Inv, ReadPage, NextPage
    PROVE  Inv' /\ active' # NoJob
<1>1. /\ active # NoJob /\ active \in ActiveJob /\ active.at = "page" /\ active.command \in Walking
      /\ active.skip \in Nat
    BY InvParts DEF ReadPage, JobInv, ActiveJob
<1>2. PICK page \in Pages(active.command, active.includeProcessed, active.skip) :
        /\ page # {}
        /\ \E first \in Take(Parallel[active.command], page) :
             active' = [active EXCEPT !.at = "items", !.skip = @ + Advance(active.command, page),
                                      !.page = page, !.todo = page \ first, !.inFlight = first,
                                      !.found = {}]
    BY DEF NextPage
<1>3. PICK first \in Take(Parallel[active.command], page) :
        active' = [active EXCEPT !.at = "items", !.skip = @ + Advance(active.command, page),
                                 !.page = page, !.todo = page \ first, !.inFlight = first,
                                 !.found = {}]
    BY <1>2
<1>4. /\ page \in SUBSET ItemsOf(active.command) /\ page \in SUBSET Items
      /\ Owners(page) \in SUBSET Listed
    <2>1. page \in SUBSET ItemsOf(active.command)
        BY <1>1, InvParts, PageTypes
    <2> QED
        BY <2>1, ItemsOfTasks, ItemsArePairs
<1>5. first \subseteq page /\ first # {}
    <2>1. Parallel[active.command] \in Nat \ {0}
        BY <1>1, NumbersAssumption
    <2> QED
        BY <1>2, <1>4, <2>1, SomeAreTaken
<1>6. Advance(active.command, page) \in Nat
    BY <1>4, ItemsArePairs, Countable DEF Advance
<1>7. /\ queue' = queue /\ strays' = strays /\ abortFlag' = abortFlag /\ running' = running
      /\ requests' = requests /\ aborts' = aborts /\ faults' = faults
      /\ UNCHANGED <<protocols, links, processed, contracts, fetched, analysed, scanned, missed>>
    BY DEF ReadPage, NextPage, tables, history, bounds
<1>8. /\ active' \in ActiveJob
      /\ active'.at = "items" /\ active'.command = active.command /\ active'.before = active.before
      /\ active'.includeProcessed = active.includeProcessed
      /\ active'.skip = active.skip + Advance(active.command, page)
      /\ active'.page = page /\ active'.todo = page \ first /\ active'.inFlight = first
      /\ active'.found = {}
    <2>1. page \ first \in SUBSET Items /\ first \in SUBSET Items
        BY <1>4, <1>5
    <2>2. active.skip + Advance(active.command, page) \in Nat
        BY <1>1, <1>6
    <2> QED
        BY <1>1, <1>3, <1>4, <2>1, <2>2 DEF ActiveJob
<1>9. TypeOK'
    BY <1>7, <1>8, InvParts DEF TypeOK, TablesOK
<1>10. MarkedWasScanned'
    BY <1>7, InvParts DEF MarkedWasScanned
<1>11. JobInv'
    BY <1>1, <1>4, <1>5, <1>8 DEF JobInv
<1>12. OffsetInv'
    <2> SUFFICES ASSUME Unprocessed'
                 PROVE  OffsetInv'
        BY DEF OffsetInv
    <2> DEFINE L == LinksOf(active.command, active.includeProcessed)
    <2>1. ReadsLinks(active.command) /\ Unprocessed
        BY <1>8 DEF Unprocessed
    <2>2. active.before \ processed = L /\ active.skip <= Cardinality(Done)
        BY <1>1, <2>1, InvParts DEF OffsetInv
    <2>3. L' = L /\ Done' = Done
        BY <1>7, <1>8 DEF LinksOf, Done, Left
    <2>4. /\ page \subseteq L /\ \A r \in L : r[1] \in Owners(page) => r \in page
          /\ Advance(active.command, page) = Cardinality(Owners(page))
        BY <1>1, <2>1, PageOfProtocols
    <2>5. Cardinality(Done \cup Owners(page)) = Cardinality(Done) + Cardinality(Owners(page))
        <3>1. Owners(page) \subseteq Left
            BY <2>2, <2>4 DEF Left, Owners
        <3>2. /\ IsFiniteSet(Done) /\ IsFiniteSet(Owners(page)) /\ Cardinality(Done) \in Nat
              /\ Cardinality(Owners(page)) \in Nat
            BY <1>1, <1>4, DoneAndLeft, Countable
        <3>3. Done \cap Owners(page) = {}
            BY <1>1, <3>1, DoneAndLeft
        <3>4. Cardinality(Done \cap Owners(page)) = 0
            BY <3>3, FS_EmptySet
        <3>5. Cardinality(Done \cup Owners(page))
                = Cardinality(Done) + Cardinality(Owners(page)) - Cardinality(Done \cap Owners(page))
            BY <3>2, FS_Union
        <3> QED
            BY <3>2, <3>4, <3>5
    <2>6. active'.skip <= Cardinality(Done \cup Owners(page))
        <3>1. Cardinality(Done) \in Nat /\ Cardinality(Owners(page)) \in Nat
            BY <1>1, <1>4, DoneAndLeft, Countable
        <3> QED
            BY <1>1, <1>8, <2>2, <2>4, <2>5, <3>1
    <2> HIDE DEF L
    <2>7. /\ active'.before \ processed' = L' /\ active'.at = "items"
          /\ active'.page \subseteq active'.before \ processed'
          /\ \A r \in active'.before \ processed' : r[1] \in Owners(active'.page) => r \in active'.page
          /\ active'.skip <= Cardinality(Done' \cup Owners(active'.page))
        BY <1>7, <1>8, <2>2, <2>3, <2>4, <2>6
    <2> QED
        BY <2>7 DEF OffsetInv, L
<1>13. active' # NoJob
    BY <1>8, JobsAssumption
<1> QED
    BY <1>9, <1>10, <1>11, <1>12, <1>13 DEF Inv

\* An empty page ends the job.
LEMMA ReadPageStep ==
    ASSUME Inv, ReadPage
    PROVE  Inv'
<1>1. CASE NextPage
    BY <1>1, NextPageStep
<1>2. CASE NoMorePages
    <2>1. /\ active' = NoJob /\ running' \in BOOLEAN /\ abortFlag' \in BOOLEAN
          /\ queue' = queue /\ strays' = strays
          /\ requests' = requests /\ aborts' = aborts /\ faults' = faults
          /\ UNCHANGED <<protocols, links, processed, contracts, fetched, analysed, scanned, missed>>
        BY <1>2 DEF ReadPage, NoMorePages, tables, history, bounds
    <2>2. TypeOK'
        BY <2>1, InvParts DEF TypeOK, TablesOK
    <2>3. MarkedWasScanned' /\ JobInv' /\ OffsetInv'
        BY <2>1, InvParts DEF MarkedWasScanned, JobInv, OffsetInv
    <2> QED
        BY <2>2, <2>3 DEF Inv
<1> QED
    BY <1>1, <1>2 DEF ReadPage

\* A job that stays at its page keeps its offset, as long as it finds no more to do.
LEMMA OffsetKept ==
    ASSUME Inv, active # NoJob, active.at = "items", active'.at \in {"items", "mark"},
           active'.command = active.command, active'.includeProcessed = active.includeProcessed,
           active'.before = active.before, active'.page = active.page, active'.skip = active.skip,
           processed' = processed,
           Unprocessed => LinksOf(active.command, active.includeProcessed)'
                            = LinksOf(active.command, active.includeProcessed)
    PROVE  OffsetInv'
<1> SUFFICES ASSUME Unprocessed'
             PROVE  OffsetInv'
    BY DEF OffsetInv
<1> DEFINE L == LinksOf(active.command, active.includeProcessed)
<1>1. Unprocessed
    BY DEF Unprocessed
<1>2. /\ active.before \ processed = L
      /\ active.page \subseteq active.before \ processed
      /\ \A r \in active.before \ processed : r[1] \in Owners(active.page) => r \in active.page
      /\ active.skip <= Cardinality(Done \cup Owners(active.page))
    BY <1>1, InvParts DEF OffsetInv
<1>3. L' = L
    BY <1>1
<1>4. Done' = Done
    BY DEF Done, Left
<1> HIDE DEF L
<1>5. /\ active'.before \ processed' = L'
      /\ active'.page \subseteq active'.before \ processed'
      /\ \A r \in active'.before \ processed' : r[1] \in Owners(active'.page) => r \in active'.page
      /\ active'.skip <= Cardinality(Done' \cup Owners(active'.page))
    BY <1>2, <1>3, <1>4
<1> QED
    BY <1>5 DEF OffsetInv, L

\* An item that ends was scanned, and the next one that waits takes its place; an abort ends
\* the job (ensureTaskNotAborted).
LEMMA FinishItemStep ==
    ASSUME Inv, NEW i, NEW ok \in BOOLEAN, FinishItem(i, ok)
    PROVE  Inv'
<1>1. /\ active # NoJob /\ active \in ActiveJob /\ active.at = "items" /\ active.command \in Walking
      /\ active.todo \in SUBSET Items /\ i \in active.inFlight
      /\ active.page \subseteq ItemsOf(active.command)
      /\ active.todo \cup active.inFlight \cup active.found \subseteq active.page
    BY InvParts DEF FinishItem, JobInv, ActiveJob
<1>2. i \in ItemsOf(active.command) /\ i \in Items
    BY <1>1, ItemsOfTasks
<1>3. /\ TablesOK' /\ faults' \in Nat
      /\ scanned \subseteq scanned'
      /\ ReadsLinks(active.command) => i[2] \in scanned'
    BY <1>1, <1>2, InvParts, WriteItemTypes DEF FinishItem
<1>4. strays' \in [Scans -> Nat]
    <2>1. strays' = strays \/ LeaveBehind(active.inFlight \ {i})
        BY DEF FinishItem
    <2> QED
        BY <2>1, InvParts, LeaveBehindTypes
<1>5. /\ queue' = queue /\ running' = running /\ abortFlag' \in BOOLEAN
      /\ requests' = requests /\ aborts' = aborts /\ links' = links /\ processed' = processed
    BY DEF FinishItem, WriteItem
<1>6. CASE active' = NoJob
    <2>1. TypeOK'
        BY <1>3, <1>4, <1>5, <1>6, InvParts DEF TypeOK, TablesOK
    <2>2. MarkedWasScanned'
        BY <1>3, <1>5, InvParts DEF MarkedWasScanned
    <2> QED
        BY <1>6, <2>1, <2>2 DEF Inv, JobInv, OffsetInv
<1>7. CASE Continue(i, ok)
    <2>1. PICK next \in Take(1, active.todo) :
            active' = [active EXCEPT !.inFlight = (@ \ {i}) \cup next, !.todo = @ \ next,
                                     !.found = IF ok THEN @ \cup {i} ELSE @]
        BY <1>7 DEF Continue
    <2>2. next \subseteq active.todo /\ (next = {} => active.todo = {})
        BY <1>1, SomeAreTaken
    <2>3. /\ active' \in ActiveJob
          /\ active'.at = "items" /\ active'.command = active.command /\ active'.page = active.page
          /\ active'.before = active.before /\ active'.skip = active.skip
          /\ active'.includeProcessed = active.includeProcessed
          /\ active'.inFlight = (active.inFlight \ {i}) \cup next
          /\ active'.todo = active.todo \ next
          /\ active'.found \subseteq active.found \cup {i}
        <3>1. /\ (active.inFlight \ {i}) \cup next \in SUBSET Items
              /\ active.todo \ next \in SUBSET Items
              /\ (IF ok THEN active.found \cup {i} ELSE active.found) \in SUBSET Items
            BY <1>1, <1>2, <2>2 DEF ActiveJob
        <3> QED
            BY <1>1, <2>1, <3>1 DEF ActiveJob
    <2>4. TypeOK'
        BY <1>3, <1>4, <1>5, <2>3, InvParts DEF TypeOK, TablesOK
    <2>5. MarkedWasScanned'
        BY <1>3, <1>5, InvParts DEF MarkedWasScanned
    <2>6. JobInv'
        <3>1. ReadsLinks(active.command) =>
                \A j \in active.page \ (active.todo \cup active.inFlight) : j[2] \in scanned
            BY <1>1, InvParts DEF JobInv
        <3>2. ReadsLinks(active.command) =>
                \A j \in active.page \ (active'.todo \cup active'.inFlight) : j[2] \in scanned'
            BY <1>3, <2>3, <3>1
        <3>3. active'.todo \cup active'.inFlight \cup active'.found \subseteq active.page
            BY <1>1, <2>2, <2>3
        <3>4. active'.inFlight = {} => active'.todo = {}
            BY <2>2, <2>3
        <3> QED
            BY <1>1, <2>3, <3>2, <3>3, <3>4 DEF JobInv
    <2>7. OffsetInv'
        <3>1. LinksOf(active.command, active.includeProcessed)'
                = LinksOf(active.command, active.includeProcessed)
            BY <1>5, <2>3 DEF LinksOf
        <3> QED
            BY <1>1, <1>5, <2>3, <3>1, OffsetKept
    <2> QED
        BY <2>4, <2>5, <2>6, <2>7 DEF Inv
<1> QED
    BY <1>6, <1>7 DEF FinishItem

\* A scan that an ended job left behind marks nothing, and adds to what was scanned.
LEMMA FinishStrayStep ==
    ASSUME Inv, NEW command \in Walking, NEW i \in ItemsOf(command), NEW ok \in BOOLEAN,
           FinishStray(command, i, ok)
    PROVE  Inv'
<1>1. TablesOK' /\ faults' \in Nat /\ scanned \subseteq scanned'
    BY InvParts, WriteItemTypes DEF FinishStray
<1>2. strays' \in [Scans -> Nat]
    <2>1. <<command, i>> \in Scans
        BY DEF Scans
    <2>2. strays \in [Scans -> Nat]
        BY InvParts
    <2>3. strays[<<command, i>>] > 0
          /\ strays' = [strays EXCEPT ![<<command, i>>] = @ - 1]
        BY DEF FinishStray
    <2> QED
        BY <2>1, <2>2, <2>3
<1>3. /\ queue' = queue /\ active' = active /\ abortFlag' = FALSE /\ running' = running
      /\ requests' = requests /\ aborts' = aborts /\ links' = links /\ processed' = processed
    BY DEF FinishStray, WriteItem
<1>4. TypeOK'
    BY <1>1, <1>2, <1>3, InvParts DEF TypeOK, TablesOK
<1>5. MarkedWasScanned'
    BY <1>1, <1>3, InvParts DEF MarkedWasScanned
<1>6. JobInv'
    BY <1>1, <1>3, InvParts DEF JobInv
<1>7. OffsetInv'
    BY <1>3, InvParts DEF OffsetInv, Unprocessed, Left, Done, LinksOf
<1> QED
    BY <1>4, <1>5, <1>6, <1>7 DEF Inv

\* Links are saved for the next task, never for the one that saves them (saveLinks).
LEMMA SavePageStep ==
    ASSUME Inv, NEW saved \in BOOLEAN, SavePage(saved)
    PROVE  Inv'
<1> DEFINE saves == active.command \in {"parse_protocols_main_page", "parse_protocols_app_page"}
           rows == IF saves THEN UNION {LinksOn(active.command, i) : i \in active.found} ELSE {}
<1>1. /\ active # NoJob /\ active \in ActiveJob /\ active.at = "items" /\ active.command \in Walking
      /\ active.inFlight = {} /\ active.todo = {}
      /\ active.page \subseteq ItemsOf(active.command) /\ active.found \subseteq active.page
    BY InvParts DEF SavePage, JobInv, ActiveJob
<1>2. /\ queue' = queue /\ strays' = strays /\ abortFlag' = abortFlag /\ running' = running
      /\ requests' = requests /\ aborts' = aborts /\ processed' = processed /\ scanned' = scanned
      /\ UNCHANGED <<protocols, contracts, fetched, analysed>>
    BY DEF SavePage
<1>3. faults' \in Nat
    BY InvParts DEF SavePage
<1>4. /\ rows \subseteq Links
      /\ ReadsLinks(active.command) => \A r \in rows : r[2] \notin UrlsOf(active.command)
    <2>1. CASE active.command = "parse_protocols_main_page"
        <3>1. \A i \in active.found : i[1] \in Listed
            BY <1>1, <2>1 DEF ItemsOf
        <3>2. \A i \in active.found : LinksOn(active.command, i) \subseteq Links
            BY <2>1, <3>1, PagesAssumption DEF LinksOn, Links
        <3> QED
            BY <2>1, <3>2 DEF ReadsLinks
    <2>2. CASE active.command = "parse_protocols_app_page"
        <3>1. \A i \in active.found : i[1] \in Listed /\ i[2] \in AppUrls
            BY <1>1, <2>2 DEF ItemsOf, ReadsLinks, UrlsOf
        <3>2. \A i \in active.found : LinksOn(active.command, i) \subseteq Listed \X DocsUrls
            BY <2>2, <3>1, PagesAssumption DEF LinksOn
        <3>3. rows \subseteq Listed \X DocsUrls
            BY <3>2
        <3> QED
            BY <2>2, <3>3, PagesAssumption DEF UrlsOf, Links, Urls
    <2> QED
        BY <2>1, <2>2
<1> HIDE DEF rows
<1>5. links' \in SUBSET (links \cup rows) /\ links \subseteq links'
    BY DEF SavePage, rows
<1>6. missed' \subseteq Urls
    <2>1. ReadsLinks(active.command) => \A i \in active.found : i[2] \in Urls
        BY <1>1, ItemsOfTasks DEF Links
    <2> QED
        BY <2>1, InvParts DEF SavePage, TablesOK
<1>7. /\ active' \in ActiveJob
      /\ active'.command = active.command /\ active'.page = active.page
      /\ active'.before = active.before /\ active'.skip = active.skip
      /\ active'.includeProcessed = active.includeProcessed
      /\ active'.todo = active.todo /\ active'.inFlight = active.inFlight
      /\ active'.found = active.found
      /\ active'.at = IF ReadsLinks(active.command) THEN "mark" ELSE "page"
    BY <1>1 DEF SavePage, ActiveJob
<1>8. TypeOK'
    <2>1. links' \subseteq Links
        BY <1>4, <1>5, InvParts DEF TablesOK
    <2> QED
        BY <1>2, <1>3, <1>6, <1>7, <2>1, InvParts DEF TypeOK, TablesOK
<1>9. MarkedWasScanned'
    BY <1>2, InvParts DEF MarkedWasScanned
<1>10. JobInv'
    <2>1. ReadsLinks(active.command) => \A i \in active.page : i[2] \in scanned
        BY <1>1, InvParts DEF JobInv
    <2> QED
        BY <1>1, <1>2, <1>7, <2>1 DEF JobInv
<1>11. OffsetInv'
    <2>1. CASE ReadsLinks(active.command)
        <3>1. LinksOf(active.command, active.includeProcessed)'
                = LinksOf(active.command, active.includeProcessed)
            BY <1>2, <1>4, <1>5, <1>7, <2>1 DEF LinksOf
        <3> QED
            BY <1>1, <1>2, <1>7, <2>1, <3>1, OffsetKept
    <2>2. CASE ~ReadsLinks(active.command)
        BY <1>7, <2>2 DEF OffsetInv, Unprocessed
    <2> QED
        BY <2>1, <2>2
<1> QED
    BY <1>8, <1>9, <1>10, <1>11 DEF Inv

\* The page that is marked was scanned, and its protocols have no links left for the task
\* (setProcessedByUrls).
LEMMA MarkPageStep ==
    ASSUME Inv, MarkPage
    PROVE  Inv'
<1>1. /\ active # NoJob /\ active \in ActiveJob /\ active.at = "mark" /\ active.command \in Walking
      /\ \A i \in active.page : i[2] \in scanned
      /\ active.before \in SUBSET Items
    BY InvParts DEF MarkPage, JobInv, ActiveJob
<1>2. /\ queue' = queue /\ strays' = strays /\ abortFlag' = abortFlag /\ running' = running
      /\ requests' = requests /\ aborts' = aborts /\ faults' = faults
      /\ UNCHANGED <<protocols, links, contracts, fetched, analysed, scanned, missed>>
    BY DEF MarkPage, history, bounds
<1>3. processed' = processed \cup {r \in links : \E i \in active.page : i[2] = r[2]}
    BY DEF MarkPage
<1>4. /\ active' \in ActiveJob
      /\ active'.command = active.command /\ active'.before = active.before /\ active'.skip = active.skip
      /\ active'.includeProcessed = active.includeProcessed /\ active'.at = "page"
    BY <1>1 DEF MarkPage, ActiveJob
<1>5. TypeOK'
    BY <1>2, <1>3, <1>4, InvParts DEF TypeOK, TablesOK
<1>6. MarkedWasScanned'
    BY <1>1, <1>2, <1>3, InvParts DEF MarkedWasScanned
<1>7. JobInv'
    BY <1>1, <1>4 DEF JobInv
<1>8. OffsetInv'
    <2> SUFFICES ASSUME Unprocessed'
                 PROVE  OffsetInv'
        BY DEF OffsetInv
    <2> DEFINE L == LinksOf(active.command, active.includeProcessed)
    <2>1. Unprocessed /\ active.includeProcessed = FALSE
        BY <1>1, <1>4 DEF Unprocessed, ActiveJob
    <2>2. /\ active.before \ processed = L
          /\ active.page \subseteq active.before \ processed
          /\ \A r \in active.before \ processed : r[1] \in Owners(active.page) => r \in active.page
          /\ active.skip <= Cardinality(Done \cup Owners(active.page))
        BY <1>1, <2>1, InvParts DEF OffsetInv
    <2>3. active'.before \ processed' = L'
        <3>1. L' = {r \in L : r \notin processed'}
            BY <1>2, <1>3, <1>4, <2>1 DEF LinksOf
        <3>2. active.before \ processed' = {r \in active.before \ processed : r \notin processed'}
            BY <1>3
        <3> HIDE DEF L
        <3> QED
            BY <1>4, <2>2, <3>1, <3>2
    <2>4. active.page \subseteq processed'
        <3>1. active.page \subseteq links
            BY <2>2 DEF LinksOf
        <3> QED
            BY <1>3, <3>1
    <2>5. Done \cup Owners(active.page) \subseteq Done'
        <3>1. Left' \subseteq Left /\ Left' \cap Owners(active.page) = {}
            BY <1>3, <1>4, <2>2, <2>4 DEF Left, Owners
        <3>2. Owners(active.page) \subseteq Owners(active.before)
            BY <2>2 DEF Owners
        <3> QED
            BY <1>4, <3>1, <3>2 DEF Done
    <2>6. Cardinality(Done \cup Owners(active.page)) <= Cardinality(Done')
        <3>1. Done' \in SUBSET Listed
            BY <1>1, <1>4, ItemsArePairs DEF Done
        <3>2. IsFiniteSet(Done')
            BY <3>1, Countable
        <3> QED
            BY <2>5, <3>2, FS_Subset
    <2>7. active'.skip <= Cardinality(Done')
        <3>1. /\ Cardinality(Done') \in Nat /\ Cardinality(Done \cup Owners(active.page)) \in Nat
              /\ active.skip \in Nat
            <4>1. Done' \in SUBSET Listed
                BY <1>1, <1>4, ItemsArePairs DEF Done
            <4>2. Done \cup Owners(active.page) \in SUBSET Listed
                BY <2>5, <4>1
            <4> QED
                BY <1>1, <4>1, <4>2, Countable DEF ActiveJob
        <3> QED
            BY <1>4, <2>2, <2>6, <3>1
    <2> HIDE DEF L
    <2> QED
        BY <1>4, <2>3, <2>7 DEF OffsetInv, L
<1> QED
    BY <1>5, <1>6, <1>7, <1>8 DEF Inv

\* Every step keeps the invariant, and so does a step that leaves everything as it is.
LEMMA NextInv == Inv /\ [Next]_vars => Inv'
<1> SUFFICES ASSUME Inv, [Next]_vars PROVE Inv'
    OBVIOUS
<1>1. CASE CronTask \/ (\E job \in Requests : RunCommand(job)) \/ CleanQueue \/ AbortTask
    BY <1>1, ServiceStep
<1>2. CASE Work
    BY <1>2, TakeJobStep, QueueDailyStep, ReadPageStep, MarkPageStep, FinishItemStep, SavePageStep DEF Work
<1>3. CASE StrayWork
    <2>1. PICK s \in Scans, ok \in BOOLEAN : FinishStray(s[1], s[2], ok)
        BY <1>3 DEF StrayWork
    <2>2. s[1] \in Walking /\ s[2] \in ItemsOf(s[1])
        BY <2>1 DEF Scans
    <2> QED
        BY <2>1, <2>2, FinishStrayStep
<1>4. CASE Fail \/ Restart
    BY <1>4, FailureStep
<1>5. CASE UNCHANGED vars
    <2>1. UNCHANGED <<queue, active, strays, abortFlag, running, requests, aborts, faults>>
          /\ UNCHANGED <<tables, history>>
        BY <1>5 DEF vars, bounds
    <2>2. TablesOK' /\ MarkedWasScanned' /\ JobInv' /\ OffsetInv'
        BY <2>1, JobUntouched
    <2> QED
        BY <2>1, <2>2, InvParts DEF Inv, TypeOK, TablesOK, ActiveJob
<1> QED
    BY <1>1, <1>2, <1>3, <1>4, <1>5 DEF Next

-----------------------------------------------------------------------------
(* Results. *)

\* The queue, the jobs and the tables keep their types, whatever is requested, aborted or fails.
THEOREM TypesAreCorrect == Spec => []TypeOK
BY InitInv, NextInv, PTL DEF Spec, Inv

\* A link is marked as processed only when its page was visited to the end
\* (parseProtocolsAppPage, parseProtocolsDocsPage), for any page size and any parallelism.
THEOREM MarkedLinksWereScanned == Spec => []MarkedWasScanned
BY InitInv, NextInv, PTL DEF Spec, Inv

\* A task over unprocessed links that ends without an error has no links left for at least half
\* of the protocols that had any (findWithLinksLimit pages by protocols, and the offset grows
\* by their number), however many links a protocol has and whatever protocols share URLs.
THEOREM TasksProcessHalf == Spec => HalfIsDone
<1>1. ASSUME Inv, Next, active # NoJob, Unprocessed, active.at = "page", active' = NoJob,
             faults' = faults
      PROVE  2 * Cardinality(Owners(active.before \ processed')) <= Cardinality(Owners(active.before))
    <2>1. /\ active \in ActiveJob /\ active.command \in Walking /\ active.skip \in Nat
          /\ ReadsLinks(active.command) /\ ~active.includeProcessed /\ faults \in Nat
        BY <1>1, InvParts DEF ActiveJob, JobInv, Unprocessed
    <2>2. ReadPage
        <3>1. ~(Fail \/ Restart)
            BY <1>1, <2>1 DEF Fail, Restart
        <3>2. ~(CronTask \/ (\E job \in Requests : RunCommand(job)) \/ CleanQueue \/ AbortTask)
            BY <1>1 DEF CronTask, RunCommand, CleanQueue, AbortTask
        <3>3. ~StrayWork
            BY <1>1 DEF StrayWork, FinishStray
        <3>4. ~TakeJob /\ ~QueueDaily /\ ~MarkPage
            BY <1>1 DEF TakeJob, QueueDaily, MarkPage
        <3>5. ~(\E i \in active.inFlight, ok \in BOOLEAN : FinishItem(i, ok))
              /\ ~(\E saved \in BOOLEAN : SavePage(saved))
            BY <1>1 DEF FinishItem, SavePage
        <3> QED
            BY <1>1, <3>1, <3>2, <3>3, <3>4, <3>5 DEF Next, Work
    <2>3. processed' = processed
        BY <2>2 DEF ReadPage, tables
    <2>4. {} \in Pages(active.command, active.includeProcessed, active.skip)
        BY <1>1, <2>2, NextPageStep DEF ReadPage, NoMorePages
    <2>5. active.before \ processed = LinksOf(active.command, active.includeProcessed)
          /\ active.skip <= Cardinality(Done)
        BY <1>1, InvParts DEF OffsetInv
    <2>6. First(Left, active.skip + PageSize) \ First(Left, active.skip) = {}
        BY <2>1, <2>4, <2>5, PageOfProtocols DEF Left
    <2>7. /\ Done \in SUBSET Listed /\ Left \in SUBSET Listed
          /\ IsFiniteSet(Done) /\ IsFiniteSet(Left)
          /\ Cardinality(Done) \in Nat /\ Cardinality(Left) \in Nat
          /\ Done \cap Left = {} /\ Done \cup Left = Owners(active.before)
        BY <1>1, DoneAndLeft
    <2>8. Cardinality(Left) <= active.skip
        BY <2>1, <2>6, <2>7, EmptyPage, NumbersAssumption
    <2>9. Cardinality(Owners(active.before)) = Cardinality(Done) + Cardinality(Left)
        <3>1. Cardinality(Done \cup Left)
                = Cardinality(Done) + Cardinality(Left) - Cardinality(Done \cap Left)
            BY <2>7, FS_Union
        <3>2. Cardinality(Done \cap Left) = 0
            BY <2>7, FS_EmptySet
        <3>3. Cardinality(Owners(active.before)) = Cardinality(Done \cup Left)
            BY <2>7, Zenon
        <3> QED
            BY <2>7, <3>1, <3>2, <3>3
    <2>10. 2 * Cardinality(Left) <= Cardinality(Owners(active.before))
        BY <2>1, <2>5, <2>7, <2>8, <2>9
    <2> QED
        BY <2>3, <2>10 DEF Left
<1>2. Inv /\ [Next]_vars =>
        [active # NoJob /\ ReadsLinks(active.command) /\ ~active.includeProcessed
           /\ active.at = "page" /\ active' = NoJob /\ faults' = faults
         => 2 * Cardinality(Owners(active.before \ processed'))
              <= Cardinality(Owners(active.before))]_vars
    BY <1>1 DEF Unprocessed
<1> QED
    BY <1>2, InitInv, NextInv, PTL DEF Spec, HalfIsDone

=============================================================================
