--------------------------- MODULE Categorization ---------------------------
(***************************************************************************)
(* The task queue of apps/categorization. A Bull queue hands one job after *)
(* the other to TasksProcessor; a job walks over protocols, links or       *)
(* contracts page by page, a few items of a page at a time, and looks at   *)
(* the abort flag after every item. The daily job start_fetching queues    *)
(* the others in the order in which each feeds the next one.               *)
(*                                                                         *)
(* Items are pairs: a protocol with its own page, with a link, or with the *)
(* address of a contract. What a page lists is given and does not change;  *)
(* protocols share URLs, and have any number of links. Parsing, similarity *)
(* and the answers of explorers are left out.                              *)
(***************************************************************************)
EXTENDS Integers, Sequences, FiniteSets

CONSTANTS
    NumProtocols,   \* protocols the aggregators list
    AppUrls,        \* URLs of app pages
    DocsUrls,       \* URLs that say gitbook or docs
    Addresses,      \* contracts
    MainPage,       \* [Listed -> links on the protocol's own page]
    AppPage,        \* [AppUrls -> docs links on the page]
    DocsPage,       \* [DocsUrls -> addresses on the page]
    Main,           \* the second part of an item that is a protocol's own page
    PageSize,       \* take of the repositories (100)
    Parallel,       \* [Walking -> items of a page in flight]
    Requests,       \* jobs that are requested through the API
    NoJob,
    MaxQueue,       \* bound: waiting jobs when the daily job or a request comes
    MaxRequests,    \* bound: requests through the API, queue cleaning included
    MaxAborts,      \* bound: requests to abort
    MaxFaults       \* bound: failing queries and unreadable pages
                    \* (a restart is possible as often as a fault)

Listed == 1..NumProtocols
Urls == AppUrls \cup DocsUrls
Links == Listed \X Urls
Contracts == Listed \X Addresses
Items == (Listed \X {Main}) \cup Links \cup Contracts

Walking == {"fetch_protocols", "parse_protocols_main_page", "parse_protocols_app_page",
            "parse_protocols_docs_page", "fetch_abi", "analyse_contracts_against_templates"}
Job == [command : Walking \cup {"start_fetching"}, includeProcessed : BOOLEAN]

ReadsLinks(command) == command \in {"parse_protocols_app_page", "parse_protocols_docs_page"}
UrlsOf(command) == IF command = "parse_protocols_app_page" THEN AppUrls ELSE DocsUrls

\* The items of a task.
ItemsOf(command) ==
    CASE command \in {"fetch_protocols", "parse_protocols_main_page"} -> Listed \X {Main}
      [] ReadsLinks(command) -> Listed \X UrlsOf(command)
      [] OTHER -> Contracts

Scans == UNION {{command} \X ItemsOf(command) : command \in Walking}

\* A job in progress: its step, its offset, its page and what it found before the first page.
ActiveJob ==
    [command : Walking \cup {"start_fetching"}, includeProcessed : BOOLEAN,
     at : {"queue", "page", "items", "mark"}, skip : Nat, page : SUBSET Items,
     todo : SUBSET Items, inFlight : SUBSET Items, found : SUBSET Items, before : SUBSET Items]

ASSUME NumbersAssumption ==
    /\ NumProtocols \in Nat \ {0} /\ PageSize \in Nat \ {0}
    /\ Parallel \in [Walking -> Nat \ {0}]
    /\ Parallel["fetch_protocols"] = 1 /\ Parallel["analyse_contracts_against_templates"] = 1
    /\ MaxQueue \in Nat /\ MaxRequests \in Nat /\ MaxAborts \in Nat /\ MaxFaults \in Nat
ASSUME PagesAssumption ==
    /\ AppUrls \cap DocsUrls = {} /\ Main \notin Urls \cup Addresses /\ Urls \cap Addresses = {}
    /\ IsFiniteSet(Urls) /\ IsFiniteSet(Addresses)
    /\ MainPage \in [Listed -> SUBSET Urls]
    /\ AppPage \in [AppUrls -> SUBSET DocsUrls]
    /\ DocsPage \in [DocsUrls -> SUBSET Addresses]
ASSUME JobsAssumption == Requests \subseteq Job /\ NoJob \notin ActiveJob

\* The order in which start_fetching queues its tasks.
Daily == <<"fetch_protocols", "parse_protocols_main_page", "parse_protocols_app_page",
           "parse_protocols_docs_page", "fetch_abi", "analyse_contracts_against_templates">>

VARIABLES
    queue,          \* waiting jobs
    active,         \* the job in progress with its page, or NoJob
    strays,         \* [command and item -> scans in flight that an ended job left behind]
    abortFlag,      \* TasksAbortChecker
    running,        \* AggregatorsService.serviceStatus = RUNNING
    protocols, links, contracts,    \* tables
    processed,      \* links with is_processed set
    fetched,        \* contracts with fetched_abi set
    analysed,       \* contracts with an analysis
    scanned,        \* history: URLs whose page was scanned to the end
    missed,         \* history: URLs whose page could not be read, or its links not saved
    requests, aborts, faults

tables  == <<protocols, links, processed, contracts, fetched, analysed>>
history == <<scanned, missed>>
bounds  == <<requests, aborts, faults>>
vars == <<queue, active, strays, abortFlag, running, tables, history, bounds>>

NoStrays == [s \in Scans |-> 0]

\* The first n elements of a set of numbers.
First(S, n) == {x \in S : Cardinality({y \in S : y <= x}) <= n}

Least(m, n) == IF m <= n THEN m ELSE n

\* The ways to take n elements of a set, or all if there are no more.
Take(n, S) == {T \in SUBSET S : Cardinality(T) = Least(n, Cardinality(S))}

\* The protocols of items.
Owners(items) == {i[1] : i \in items}

-----------------------------------------------------------------------------
Init ==
    /\ queue = <<>>
    /\ active = NoJob
    /\ strays = NoStrays
    /\ abortFlag = FALSE
    /\ running = FALSE
    /\ protocols = {} /\ links = {} /\ contracts = {}
    /\ processed = {} /\ fetched = {} /\ analysed = {}
    /\ scanned = {} /\ missed = {}
    /\ requests = 0 /\ aborts = 0 /\ faults = 0

-----------------------------------------------------------------------------
(* TasksService and the API. *)

Queue(job) == queue' = Append(queue, job)

\* cronTask
CronTask ==
    /\ Len(queue) < MaxQueue
    /\ Queue([command |-> "start_fetching", includeProcessed |-> FALSE])
    /\ UNCHANGED <<active, strays, abortFlag, running, tables, history, bounds>>

\* runCommand
RunCommand(job) ==
    /\ Len(queue) < MaxQueue
    /\ requests < MaxRequests
    /\ Queue(job)
    /\ requests' = requests + 1
    /\ UNCHANGED <<active, strays, abortFlag, running, tables, history, aborts, faults>>

\* cleanQueue, of the waiting jobs
CleanQueue ==
    /\ queue # <<>>
    /\ requests < MaxRequests
    /\ queue' = <<>>
    /\ requests' = requests + 1
    /\ UNCHANGED <<active, strays, abortFlag, running, tables, history, aborts, faults>>

\* abortActiveTask, whatever is active
AbortTask ==
    /\ aborts < MaxAborts
    /\ abortFlag' = TRUE
    /\ aborts' = aborts + 1
    /\ UNCHANGED <<queue, active, strays, running, tables, history, requests, faults>>

-----------------------------------------------------------------------------
(* TasksProcessor. *)

\* A mutant: the default of includeProcessed is lost.
StartedUndefined(job) ==
    [command |-> job.command, includeProcessed |-> NoJob, at |-> "page",
     skip |-> 0, page |-> {}, todo |-> {}, inFlight |-> {}, found |-> {}, before |-> {}]

Started(job) ==
    [command |-> job.command, includeProcessed |-> job.includeProcessed, at |-> "page",
     skip |-> 0, page |-> {}, todo |-> {}, inFlight |-> {}, found |-> {}, before |-> {}]

LinksOf(command, again) ==
    {r \in links : r[2] \in UrlsOf(command) /\ (again <=> r \in processed)}

\* A mutant: includeProcessed is read the wrong way round for links.
SourceSwapped(command, again) ==
    CASE command = "fetch_protocols" -> Listed \X {Main}
      [] command = "parse_protocols_main_page" -> protocols \X {Main}
      [] ReadsLinks(command) -> LinksOf(command, ~again)
      [] command = "fetch_abi" -> IF again THEN fetched ELSE contracts \ fetched
      [] command = "analyse_contracts_against_templates" -> fetched

\* What a task pages over. With includeProcessed it is what was processed before.
Source(command, again) ==
    CASE command = "fetch_protocols" -> Listed \X {Main}
      [] command = "parse_protocols_main_page" -> protocols \X {Main}
      [] ReadsLinks(command) -> LinksOf(command, again)
      [] command = "fetch_abi" -> IF again THEN fetched ELSE contracts \ fetched
      [] command = "analyse_contracts_against_templates" -> fetched

\* The queue is done with a job before it takes the next one. While the status says that
\* the aggregators run, fetch_protocols returns at once.
TakeJob ==
    LET job == Head(queue)
        idle == job.command = "fetch_protocols" /\ running
    IN  /\ active = NoJob
        /\ queue # <<>>
        /\ queue' = Tail(queue)
        /\ active' = IF idle THEN NoJob
                     ELSE IF job.command = "start_fetching" THEN [Started(job) EXCEPT !.at = "queue"]
                     ELSE [Started(job) EXCEPT !.before = Source(job.command, job.includeProcessed)]
        /\ running' = (running \/ job.command = "fetch_protocols")
        /\ UNCHANGED <<strays, abortFlag, tables, history, bounds>>

\* start_fetching queues the tasks one by one.
QueueDaily ==
    /\ active # NoJob /\ active.at = "queue"
    /\ Queue([command |-> Daily[active.skip + 1], includeProcessed |-> active.includeProcessed])
    /\ active' = IF active.skip + 1 = Len(Daily) THEN NoJob ELSE [active EXCEPT !.skip = @ + 1]
    /\ UNCHANGED <<strays, abortFlag, running, tables, history, bounds>>

\* A mutant: the offset counts from one.
PagesFromOne(command, again, skip) ==
    LET S == Source(command, again)
        chosen == First(Owners(S), skip + 1 + PageSize) \ First(Owners(S), skip + 1)
    IN  CASE command = "fetch_protocols" -> {IF skip = 0 THEN S ELSE {}}
          [] command = "fetch_abi" -> Take(PageSize, S)
          [] command = "analyse_contracts_against_templates" ->
                Take(Least(PageSize, Cardinality(S) - skip), S)
          [] OTHER -> {{i \in S : i[1] \in chosen}}

\* The pages that a task may get at an offset: all that the aggregators list, contracts in an
\* order that is left open, for fetch_abi always the first ones, and otherwise protocols in the
\* order of their ids, each with all of its links that are asked for.
Pages(command, again, skip) ==
    LET S == Source(command, again)
        chosen == First(Owners(S), skip + PageSize) \ First(Owners(S), skip)
    IN  CASE command = "fetch_protocols" -> {IF skip = 0 THEN S ELSE {}}
          [] command = "fetch_abi" -> Take(PageSize, S)
          [] command = "analyse_contracts_against_templates" ->
                Take(Least(PageSize, Cardinality(S) - skip), S)
          [] OTHER -> {{i \in S : i[1] \in chosen}}

\* What a page adds to the offset: rows of the table that is paged.
Advance(command, page) ==
    Cardinality(IF command \in {"fetch_abi", "analyse_contracts_against_templates"}
                THEN page ELSE Owners(page))

\* An empty page ends the task; the aggregators' status is reset at the very end of run, and
\* the analysis looks at the flag after an empty page, too.
NoMorePages ==
    /\ {} \in Pages(active.command, active.includeProcessed, active.skip)
    /\ active' = NoJob
    /\ running' = (running /\ active.command # "fetch_protocols")
    /\ abortFlag' = (abortFlag /\ active.command # "analyse_contracts_against_templates")

NextPage ==
    /\ \E page \in Pages(active.command, active.includeProcessed, active.skip) :
         /\ page # {}
         /\ \E first \in Take(Parallel[active.command], page) :
              active' = [active EXCEPT !.at = "items", !.skip = @ + Advance(active.command, page),
                                       !.page = page, !.todo = page \ first, !.inFlight = first,
                                       !.found = {}]
    /\ UNCHANGED <<running, abortFlag>>

ReadPage ==
    /\ active # NoJob /\ active.at = "page"
    /\ NoMorePages \/ NextPage
    /\ UNCHANGED <<queue, strays, tables, history, bounds>>

\* What one item leaves in the tables: the pages of protocols and app links only find links,
\* which are saved with the page. A page that cannot be read, or a contract that cannot be
\* compared, is logged and leaves nothing.
WriteItem(command, i, ok) ==
    /\ protocols' = IF command = "fetch_protocols" THEN protocols \cup {i[1]} ELSE protocols
    /\ contracts' = IF command = "parse_protocols_docs_page" /\ ok
                    THEN contracts \cup ({i[1]} \X DocsPage[i[2]]) ELSE contracts
    /\ fetched' = IF command = "fetch_abi" THEN fetched \cup {i} ELSE fetched
    /\ analysed' = IF command = "analyse_contracts_against_templates" /\ ok
                   THEN analysed \cup {i} ELSE analysed
    /\ scanned' = IF ReadsLinks(command) THEN scanned \cup {i[2]} ELSE scanned
    /\ missed' = IF ReadsLinks(command) /\ ~ok THEN missed \cup {i[2]} ELSE missed
    /\ faults' = IF ok THEN faults ELSE faults + 1
    /\ ~ok => faults < MaxFaults /\ command \notin {"fetch_protocols", "fetch_abi"}
    /\ UNCHANGED <<links, processed>>

\* Scans that go on after their job has ended.
LeaveBehind(items) ==
    strays' = [s \in Scans |->
                  IF s[1] = active.command /\ s[2] \in items THEN strays[s] + 1 ELSE strays[s]]

\* The flag is looked at after each item, but in the analysis after each page.
Looks == active.command = "analyse_contracts_against_templates" => active.todo = {}

\* The next item is taken up when one has ended.
Continue(i, ok) ==
    \E next \in Take(1, active.todo) :
        active' = [active EXCEPT !.inFlight = (@ \ {i}) \cup next, !.todo = @ \ next,
                                 !.found = IF ok THEN @ \cup {i} ELSE @]

\* A mutant: an aborted task marks the page it was at.
FinishItemMarking(i, ok) ==
    /\ active # NoJob /\ active.at = "items" /\ i \in active.inFlight
    /\ WriteItem(active.command, i, ok)
    /\ IF abortFlag /\ Looks
       THEN active' = [active EXCEPT !.at = "mark", !.inFlight = {}, !.todo = {}]
       ELSE Continue(i, ok)
    /\ LeaveBehind({})
    /\ abortFlag' = (abortFlag /\ ~Looks)
    /\ UNCHANGED <<queue, running, requests, aborts>>

\* An item ends and looks at the flag (ensureTaskNotAborted). The error of an abort ends
\* the task at once, while the other items of the page go on.
FinishItem(i, ok) ==
    /\ active # NoJob /\ active.at = "items" /\ i \in active.inFlight
    /\ WriteItem(active.command, i, ok)
    /\ \/ abortFlag /\ Looks /\ active' = NoJob /\ LeaveBehind(active.inFlight \ {i})
       \/ ~(abortFlag /\ Looks) /\ Continue(i, ok) /\ UNCHANGED strays
    /\ abortFlag' = (abortFlag /\ ~Looks)
    /\ UNCHANGED <<queue, running, requests, aborts>>

\* A scan without a job takes the abort meant for the job that is active now with it.
FinishStray(command, i, ok) ==
    /\ strays[<<command, i>>] > 0
    /\ WriteItem(command, i, ok)
    /\ abortFlag' = FALSE
    /\ strays' = [strays EXCEPT ![<<command, i>>] = @ - 1]
    /\ UNCHANGED <<queue, active, running, requests, aborts>>

\* The links that a page lists, with the protocol it was scanned for.
LinksOn(command, i) ==
    {i[1]} \X (IF command = "parse_protocols_main_page" THEN MainPage[i[1]] ELSE AppPage[i[2]])

\* saveLinks after the last item of the page. A link is new unless one with its URL is among
\* those of the page that are stored; a page that could not be read leaves a condition without
\* values, which matches nothing or everything. An error is logged, and the task goes on.
SavePage(saved) ==
    LET saves == active.command \in {"parse_protocols_main_page", "parse_protocols_app_page"}
        rows == IF saves THEN UNION {LinksOn(active.command, i) : i \in active.found} ELSE {}
    IN  /\ active # NoJob /\ active.at = "items" /\ active.inFlight = {}
        /\ \/ /\ saved
              /\ \E stored \in {rows \cap links, IF active.found = active.page THEN rows \cap links ELSE links} :
                    links' = links \cup {r \in rows : \A s \in stored : s[2] # r[2]}
              /\ UNCHANGED <<faults, missed>>
           \/ /\ ~saved /\ saves /\ faults < MaxFaults
              /\ faults' = faults + 1
              /\ missed' = IF ReadsLinks(active.command) THEN missed \cup {i[2] : i \in active.found} ELSE missed
              /\ UNCHANGED links
        /\ active' = [active EXCEPT !.at = IF ReadsLinks(active.command) THEN "mark" ELSE "page"]
        /\ UNCHANGED <<queue, strays, abortFlag, running, protocols, processed, contracts, fetched,
                       analysed, scanned, requests, aborts>>

\* setProcessedByUrls, whether the pages could be read or not, and for every protocol that
\* has a link with one of the URLs.
MarkPage ==
    /\ active # NoJob /\ active.at = "mark"
    /\ processed' = processed \cup {r \in links : \E i \in active.page : i[2] = r[2]}
    /\ active' = [active EXCEPT !.at = "page"]
    /\ UNCHANGED <<queue, strays, abortFlag, running, protocols, links, contracts, fetched, analysed,
                   history, bounds>>

-----------------------------------------------------------------------------
(* Failures. *)

\* A query rejects, or an item outside of the scans that catch their errors: the job fails.
Fail ==
    /\ active # NoJob
    /\ faults < MaxFaults
    /\ faults' = faults + 1
    /\ active' = NoJob
    /\ IF active.at = "items"
       THEN /\ active.command \in {"fetch_protocols", "fetch_abi"}
            /\ \E i \in active.inFlight : LeaveBehind(active.inFlight \ {i})
       ELSE strays' = strays
    /\ UNCHANGED <<queue, abortFlag, running, tables, history, requests, aborts>>

\* The process restarts. With maxStalledCount 0 the job that was active fails.
Restart ==
    /\ faults < MaxFaults
    /\ faults' = faults + 1
    /\ active' = NoJob
    /\ strays' = NoStrays
    /\ abortFlag' = FALSE
    /\ running' = FALSE
    /\ UNCHANGED <<queue, tables, history, requests, aborts>>

-----------------------------------------------------------------------------
Work ==
    \/ TakeJob \/ QueueDaily \/ ReadPage \/ MarkPage
    \/ active # NoJob /\ \E i \in active.inFlight, ok \in BOOLEAN : FinishItem(i, ok)
    \/ \E saved \in BOOLEAN : SavePage(saved)

StrayWork ==
    strays # NoStrays /\ \E s \in Scans, ok \in BOOLEAN : FinishStray(s[1], s[2], ok)

Next ==
    \/ CronTask \/ (\E job \in Requests : RunCommand(job)) \/ CleanQueue \/ AbortTask
    \/ Work \/ StrayWork \/ Fail \/ Restart

Spec == Init /\ [][Next]_vars

\* The timer fires every day, the worker takes jobs as long as there are any, and every call
\* of a job returns or rejects in the end.
FairSpec == Spec /\ WF_vars(CronTask) /\ WF_vars(Work) /\ WF_vars(StrayWork)

-----------------------------------------------------------------------------
(* Properties. *)

\* The variables hold jobs, scans and the rows of the tables.
TypeOK ==
    /\ queue \in Seq(Job)
    /\ active = NoJob \/ active \in ActiveJob
    /\ strays \in [Scans -> Nat]
    /\ abortFlag \in BOOLEAN /\ running \in BOOLEAN
    /\ protocols \subseteq Listed
    /\ links \subseteq Links /\ processed \subseteq Links
    /\ contracts \subseteq Contracts /\ fetched \subseteq Contracts /\ analysed \subseteq Contracts
    /\ scanned \subseteq Urls /\ missed \subseteq Urls
    /\ requests \in Nat /\ aborts \in Nat /\ faults \in Nat

\* A link is marked as processed only when its page was visited to the end, whatever is
\* aborted, fails or goes on behind an ended task (parseProtocolsAppPage,
\* parseProtocolsDocsPage): the links of a page that is cut short stay to be done.
MarkedWasScanned == \A r \in processed : r[2] \in scanned

\* A task over unprocessed links that ends without an error is done with the links of at least
\* half of the protocols that had any. It does not do all: the offset counts protocols, marking
\* a page takes its protocols out of the result, and the next page of protocols is skipped.
\* Of the links themselves it may do less than half, if the protocols it skips have most.
HalfIsDone ==
    [][active # NoJob /\ ReadsLinks(active.command) /\ ~active.includeProcessed
         /\ active.at = "page" /\ active' = NoJob /\ faults' = faults
       => 2 * Cardinality(Owners(active.before \ processed'))
            <= Cardinality(Owners(active.before))]_vars

\* The status says that the aggregators run while no job runs them.
Stuck == running /\ (active = NoJob \/ active.command # "fetch_protocols")

\* The URLs on a way from the aggregators to a contract: a docs page, or an app page and a
\* docs page.
Ways ==
    [a \in Addresses |->
        {w \in SUBSET Urls : \E p \in Listed, d \in DocsUrls :
            /\ a \in DocsPage[d]
            /\ \/ d \in MainPage[p] /\ w = {d}
               \/ \E u \in AppUrls \cap MainPage[p] : d \in AppPage[u] /\ w = {u, d}}]

\* Every contract that can be reached from the aggregators is fetched in the end, for one of
\* the protocols that lead to it, through aborts, failures and restarts, because the tasks
\* are queued again every day. The exceptions are contracts all of whose ways lead over
\* a page that could not be read, which is marked all the same, and the aggregators being
\* stuck for good after an error.
FetchedInTheEnd ==
    \/ <>(\A a \in Addresses : \/ \E p \in Listed : <<p, a>> \in fetched
                              \/ \A w \in Ways[a] : w \cap missed # {})
    \/ <>[]Stuck
=============================================================================
