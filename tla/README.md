# Specifications of the DeFiYield back end

TLA+ models of the parts of this repository whose correctness depends on the
order in which things happen: the chain crawler and the three consumers behind
it, the scheduler, the RPC proxy, the task queue of the categorization service,
the job processor of the assets service, and the pool cache of the integration
service. The models are checked with TLC on small instances, and every invariant
and action property that a passing run checks is also proved with TLAPS, for
every value of the constants; liveness is left to TLC.

`PROJECT.json` lists the components, the runs, the source lines every
definition stands for, the hazards of the code, the mutants that show that each
property can fail, the disagreements found, and the theorems.

## 1. The system

A Nest.js monorepo of services (`apps/`), jobs (`jobs/`) and libraries
(`libs/`) over PostgreSQL, Redis, MongoDB (Agenda) and RabbitMQ. `.chart`
deploys a service as a ReplicaSet with one replica, up to ten by autoscaling.

    Ethereum node
         | logs, blocks
         v
    migration_chain_crawler --- blocks_info, eth_blocks (PostgreSQL), Agenda lock (MongoDB)
         |  asset migration queue                |  transaction queue
         v                                       v
    migration_events_consumer            migration_transactions_consumer
         |  asset_transfers_new,                 |  transactions_new
         |  approvals, approvals_new             |
         +------------- assets_new --------------+
         |  queue of new assets                  |
         v                                       v
    migration_token_consumer --- Covalent, web3, Ethplorer

    scheduler: table tasks + SchedulerRegistry --- calls endpoints of the other services
    rpc: table endpoints + scores (Redis) --- forwards JSON-RPC calls of the other services
    categorization: Bull queue + tables of protocols, links, contracts --- web pages, explorers
    assets: Bull queue + table of assets + Redis --- analysers that read contracts
    integration: instances of platforms + Redis --- contracts, APIs, the assets service

| component | state | operations | what is hard | what makes it correct |
|---|---|---|---|---|
| `jobs/migration_chain_crawler` | checkpoint rows in `blocks_info`, `eth_blocks`, the Agenda lock | a tick every ten seconds: range, logs, blocks, settings, publish events, publish transactions, save | rolling updates cancel the lock of a running tick; crashes between publishing and saving; reorganisations; nodes that lag and disagree | no block is jumped over, nothing is checkpointed unpublished, nothing published is taken back, every confirmed block is crawled |
| `jobs/migration_events_consumer` | `assets_new`, `asset_transfers_new`, `approvals`, `approvals_new`, cache of requests | one event per delivery: row of the token, request for its description, transfer or approval | several consumers, redelivery, repeated and reordered events, failure between two writes | what is acknowledged is stored, approvals never go back in time, rows never lose data |
| `jobs/migration_token_consumer` | `assets_new` | describes a token from one of three sources | retries, several requests for a token | requests can be answered, descriptions stay |
| `jobs/migration_transactions_consumer` | `transactions_new` | receipt, prices, rows of the tokens, upsert | its queue is independent of the events' queue | transactions end up stored, with described tokens only |
| `apps/scheduler` | table `tasks`, registry of cron jobs in memory | store, update, destroy, boot | the row is written before the registry, with awaits in between; restarts rebuild the registry | the registry runs what the table says |
| `apps/rpc` | map of endpoints, success scores in the cache | proxied call with retries, two timers | unlocked read-modify-write of scores, a timer writing into a map another one replaced | the map holds the enabled endpoints once each, a call is given up only after all its tries, scores are the newest ones |
| `apps/categorization` | Bull queue, abort flag, protocols, links, contracts | tasks in order, abort, paging | the abort flag outlives its task, pages of a shrinking set, scans that go on after an abort | only visited links are marked, a task is done with half of its protocols, every contract that can be reached is fetched in the end |
| `apps/assets` | table of assets, cache in two forms, counters of invalid assets, jobs | request, job with nested jobs, daily processors | two workers on one asset, lost counts, cached forms that differ, dead workers | a stored asset has its parts, recognised assets are stored, others are given up |
| `apps/integration` framework | instances of platforms, pool list, pools, hydrated pools | sync, read, retry of failed protocols | list and pools read separately, fetches that overtake each other, racing instances | answers are whole and not older than the last sync, every protocol is served |
| `apps/price` | current prices in table and cache | update, read through the cache | cache filled by a read that is older than an update | planned, see 6 |
| `apps/gateway`, `account`, `opportunities`, `nft`, protocol adapters, price and vault lambdas, `libs` | response caches at most | forward, read, compute | I/O and decimal arithmetic | not modelled |

The hazards of each, with the line where they bite, are in `PROJECT.json`.

## 2. Modules

| module | what it is |
|---|---|
| `Crawler` | the crawler's tick, one action per await, several pods, the chain and its nodes, faults and crashes |
| `BlockFeed` | abstract specification of what the crawler promises to the queue |
| `CrawlerProofs` | theorems about `Crawler`, the refinement included |
| `MCCrawler` | instance for `MCCrawlerDeep.cfg` and `MCCrawlerLive.cfg` |
| `EventsConsumer` | the events consumers, one action per await of `migrateEvent` |
| `EventsConsumerProofs` | theorems about `EventsConsumer` |
| `TokenConsumer`, `TransactionsConsumer` | the other two consumers |
| `Migration` | the three consumers composed over their queues and `assets_new` |
| `MigrationProofs` | theorems about `Migration`, and so about the token and transactions consumers |
| `MCEventsConsumer`, `MCMigration` | instances for `MCEvents.cfg`, `MCEventsRequest.cfg`, `MCMigration.cfg`, `MCMigrationWhole.cfg` |
| `Scheduler` | requests, registry, table and restarts of the scheduler |
| `SchedulerProofs` | theorems about `Scheduler` |
| `MCScheduler` | instance for `MCScheduler.cfg` and `MCSchedulerResume.cfg` |
| `RpcProxy`, `MCRpcProxy` | calls, scores, loads and reorderings of the RPC proxy |
| `RpcProxyProofs` | theorems about `RpcProxy`, the lemmas on filters, reorderings and round-robin included |
| `Categorization`, `MCCategorization` | queue, tasks, abort flag and tables of the categorization service |
| `CategorizationProofs` | theorems about `Categorization` |
| `AssetsProcessor`, `MCAssetsProcessor` (`MCAssets.cfg`) | jobs, workers, cache and counters of the assets service |
| `AssetsProcessorProofs` | theorems about `AssetsProcessor` |
| `ProtocolCache`, `MCProtocolCache` | platforms, protocols and cached pools of the integration service |
| `ProtocolCacheProofs` | theorems about `ProtocolCache` |

An operator that stands in front of another one under a similar name and says
what is wrong with it (`FromBlockSkipping` before `FromBlock`) is a mutant: the
same code with a plausible mistake. No specification uses it; `PROJECT.json`
says which property fails when it takes the place of the real one.

### Crawler

A pod runs one tick at a time: `Tick` takes the Agenda lock, `ReadCheckpoint`
... `SaveData` are the awaits of `ethWeb3Migration`, in order. `Finish` is the
end of the job's handler, after which Agenda releases the lock. `Boot` is
`agenda.on('ready')`: it cancels the job, which deletes its document, lock
included, so that the old pod of a rolling update and the new one run at the
same time. Two ticks that overlap in one process behave like two pods.

* A block has one tracked log and one transaction. Its content is a version
  number that a reorganisation (`Reorg`) increases. Tables of raw logs and
  transactions are written in the same database transaction as `eth_blocks`
  and are not modelled separately.
* Nodes trail the chain by up to `MaxLag` blocks, each call may reach another
  one, and a node may still have blocks from before a reorganisation (`Views`).
  A missing block gives no logs; its block is null, and the tick ends.
* Messages of a phase are confirmed in chunks of 100. They are one step, unless
  the phase fails, which leaves any part of them with the broker.
* `TrackEvents` is the insertion of the settings row `tracked_events`. Without
  it logs are skipped and the checkpoint advances nevertheless; the history flag
  `events` of a row remembers this.
* A node behind the checkpoint gives a range that ends before it begins. The
  code goes on with it and stores such a row; `NoGap` shows it does no harm.
* Only the Ethereum job is started by the code. The BSC job and the methods
  with explicit block numbers have no caller and are left out.

### Events, token and transactions consumers

`stream` is what was published to a queue, in order; `ready` are the positions
that wait, and `Deliver` takes the first. A message that is nacked or whose
consumer dies returns to its place, as RabbitMQ does. `Interrupt` is a rejected
call or the death of the process at any await, since both end in a requeue. The
10 ms delay before a nack is part of the nack.

* An event is its type, its token and the timestamp of its block. The token of
  an approval stands for owner, token and spender, the key of `approvals_new`.
  `unparsable` events have missing topics or data and are acknowledged,
  `unknown` ones make `toEntity` throw.
* `assets[a]` is the row of a token: none, without description (`is_data_present`
  not set), or described. The unique index over address and chain is taken from
  `initialMigration.ts` of the account service.
* Requests for the description of a token are a set: repeated ones find the row
  described and are acknowledged at once.
* In `TransactionsConsumer` a transaction is the set of its tokens, and the rows
  it gets (one per address, by one statement) are the set of tokens with
  sub-transactions. A missing price throws, which is `Interrupt`; a missing
  receipt ends the handling (`dropped`).
* In `Migration` the crawler is reduced to what `Crawler` shows of it: the events
  of a transaction are with the broker before the transaction, and both may be
  repeated.

### Scheduler

A task is its cron expression, with endpoint and method, and its flag. `store`,
`update` and `destroy` are split at their awaits, `Fault` is a query that
rejects, `Restart` loses the registry and the requests in flight, `Boot` is
`onApplicationBootstrap`. `disturbed` is a history variable: tasks for which the
code does not keep registry and table in step (see `InStep`). One process, as
the chart deploys it; with several each one would run all jobs. `BootThrows` is a
boot that meets an invalid expression: the hook rejects before the server listens,
node 14 only warns of it, and jobs of the rows before the invalid one may run in a
process that never answers. The liveness probe has it replaced by one that does the
same; the properties speak of a process that serves.

### RPC proxy

`ReadEnabled` and `Load` are `syncEndpointsFromDatabase`, the walk over the chains
(`StartTimer` ... `EndWalk`) is `updateEndpointsPriority` with one step per awaited
score, `StartCall` and `Try` are `proxyRPCCall`, and `ReadScores` and `WriteScores` are
`updateEndpointSuccessRate`, which nobody awaits.

* JavaScript's Map and its objects matter: a reordering holds the objects of the
  map it started with and writes its lists into the map that is current then.
  Both carry the number of the load that made them.
* `InOrder` is the sort with `compareEndpointStatistic`, which assigns a priority
  (`=`) where it should compare (`==`): sorting levels the priorities of a chain.
  No text says in which order endpoints are tried, so no property does.
* An endpoint has a fixed chain; one that is moved is a deleted and a created one.
  Loads do not overlap each other, the timer's period is minutes. That Redis
  forgets the scores of an endpoint nobody calls for days is left out.

### Categorization

One job is active; `ReadPage` reads a page, `FinishItem` ends one of the items in
flight, at most `Parallel` of them, `SavePage` stores what they found and `MarkPage`
sets `processed`. `strays` are items that were in flight when an abort or an error
ended their task: `parallelLimit` rejects and they go on. `running` is the
`serviceStatus` of the aggregators. `missed` (a page that could not be read)
and `Stuck` (the status is never taken back) are exceptions of `FetchedInTheEnd`.

* Links and contracts are pairs of a protocol and a URL or address. A protocol has any
  number of links, and several have the same URL. `MainPage`, `AppPage` and
  `DocsPage` give what pages list, which does not change. Two rows with the same
  protocol and URL count as one, and links to GitHub are left out: only tasks on
  request read them.
* `findWithLinksLimit` takes protocols in the order of their ids, each with all of
  its links that are asked for, and the offset grows by protocols (`Pages`, `Advance`).
  Rows of contracts have no stable order once they are updated, so their pages
  are any rows.
* `saveLinks` finds what is stored by URL, type and protocol, but then leaves out new
  links by URL alone. A page that could not be read adds a condition without
  values, which the query builder may read as no row or as all rows; `SavePage`
  allows both, so a link to a URL that another protocol has may be dropped.
  `FetchedInTheEnd` therefore asks for a contract under one of the protocols that
  lead to it.
* `setProcessedByUrls` marks the links of all protocols with one of the URLs.
* Items look at the abort flag one by one, the analysis after each page of contracts
  that a template is compared with, the empty page included (`Looks`). One template
  stands for all.

### Assets

A worker has a stack of frames, one per nested call of `processAsset`; `pc` is the
await a frame is at. An asset is analysable or not, for good, by initial choice.

* A compound asset is cached as `nested` (by `getOrLoad`) or `flat` (by
  `saveAssetsToCache`); which one a reader finds decides what it can do. Simple
  assets have one form and their entries are left out.
* The counter of invalid assets is read and written in two steps and saturates
  at `MaxRetry`, from where on it makes no difference.
* Cache writes are not awaited: they are `Fill` steps, merged beyond `MaxFills`. A
  dead worker loses them, and its job is failed after a while (`Stalled`).
* A client's request is one step: it reads, answers and queues what is missing,
  and since the age of a row is left out any row may be outdated when it comes.
* Rows' contents, job priorities, prices and the tracked flag are left out.

### Protocol cache

`Begin`, `Create`, `Validate`, `Ask`, `Finish` are a request at the level of
platform and service; `GetHydrated`, `GetList`, `GetPools`, `Fetch`, `Store`,
`Hydrate` are the awaits of `getPoolData` and `cachePoolData` for one protocol. A
user's positions are read through the same path and count as a read.

* What a chain offers is a growing sequence of lists; everything cached carries
  the position of the list it comes from, so that age can be compared. The mset
  of list and pools is one step because the Redis store runs it as a transaction.
* A request without chains takes those of the protocols initialised at that
  moment, before the others are tried again, as in `PlatformService`.
* Pools of unknown tokens (`Unknown`) are left out of an answer without an error.
* Every pool has an id. `cachePoolData` logs one that is null or has none, keeps it
  off the list, and still returns it to a reader that had to fetch
  (`RootProtocolCacheable.ts:85-90`): such a pool would be in the answer of a fetch
  and missing from those that follow. This case is not modelled.
* `Restart` includes the bootstrap of the new process, which may fail for some
  protocols or for the whole platform. Both leave the service running.
* Pool keys are `chain_id` without the protocol or the platform. Ids are assumed
  unique across all of them (`IdsAssumption`), as the comment at
  `new.interfaces.ts:18` demands. Ids that collide are outside of the model, and
  `AnswersAreWhole` and `ReadsWhatWasSynced` say nothing about them.

## 3. Runs

| run | expected | shows |
|---|---|---|
| `crawler_deep` | pass | with `ETH_LAST_BLOCKS` at least the depth of reorganisations plus the lag, two pods publish only canonical content, checkpoint only what is published and store exactly the crawled chain (1.9 million states) |
| `crawler_live` | pass | without margin no block is jumped over, the crawler implements `BlockFeed`, and every confirmed block is crawled in the end, through a failed call and a lock left by a dead pod (0.4 million) |
| `events` | pass | two consumers, any stream of three out of six events, one interruption: acknowledged events are in the tables, approvals never get older, rows only grow (0.4 million) |
| `events_request` | violation | the cache entry written before the request suppresses the request after a failure |
| `migration` | pass | the three consumers together: requests have rows, transactions are stored with described tokens, storing again loses nothing, and every transaction is settled (0.7 million) |
| `migration_whole` | violation | a transaction that overtakes its events is stored without them |
| `scheduler` | pass | two overlapping requests, two tasks, an invalid expression, a failing query and a restart: the registry is in step outside of the listed exceptions (3 million) |
| `scheduler_resume` | violation | one invalid expression keeps the service from starting again |
| `rpc` | pass | three endpoints of two chains, a change of the table, two loads against reorderings, a call of three tries whose scores overlap: the map is the last load, calls are given up last, scores are the newest (1.8 million) |
| `categorization` | pass | three protocols in pages of two, one abort, one failure or restart, one request for processed links: only visited links are marked, a task is done with at least half of the protocols it had links of, every contract that can be reached is fetched in the end (1 million) |
| `assets` | pass | two workers on a pair and its token, one failure or crash: what is stored is whole, no job is worked on twice, what cannot be analysed is given up, what can be is stored (0.6 million) |
| `protocols` | pass | a client and the sync job on one protocol with two pools, one change of the pools, one failure or restart: answers are whole, not older than the last sync, everything is served, the last list wins (1.5 million) |

Why the bounds are enough for the cases that matter:

* crawler: two pods (a rolling update has two); a chain long enough for a
  checkpoint, a range of two blocks and a margin at once; one reorganisation,
  one failed call and one crash, each at every step, which is what it takes to
  lose, repeat or swap messages. `MaxReorg + MaxLag <= LastBlocks` is the
  premise of the properties of `crawler_deep` (`DeepEnough`); below it the
  code may lose logs or publish content that is replaced, by design of a
  confirmation margin.
* events: two consumers are enough for two insertions of one token; three
  events for an approval, an older one, and a repetition of either.
* migration: one consumer per queue, because the interleavings in question are
  between queues. A second message of the same transaction is what
  `SubTransactionsOnlyGrow` needs. With two transactions consumers it does not
  hold: the one that read the rows earlier may write last (hazard at
  `transactions.parsing.service.ts:193`).
* scheduler: two requests on two tasks give all overlaps of two.
* rpc: three tries over two endpoints wrap around once; two scores kept of three
  make room once; one change and one later load let a disabled endpoint vanish
  under a reordering. The constraint `Apart` explores calls and table changes
  apart: a call uses the map in one step, at its start.
* categorization: three protocols in pages of two give a page that is skipped; a
  docs page that two protocols share, and one of them with a second docs page behind
  its app page, tell links from protocols and URLs from links; one abort is enough to
  be taken by the wrong task.
* assets: two workers are what the code runs; a pair and its token give nesting,
  a job of the token beside the nested one, and both cached forms. Counts and
  attempts are smaller than the code's 5 and 3.
* protocols: two requests overlap in every way, one of them with `debug` reads
  as well; two pools let a list be complete in part; lists that shrink tell the
  newer from the older. One protocol, since protocols share nothing but a request.

Deadlock is checked for crawler, scheduler, categorization, assets and
protocols. The bounded streams of the consumers, and the bounded calls and
loads of the RPC proxy, end, so their configurations switch it off.

### Fairness

* `Crawler!Fairness`: weak fairness of booting and of the tick's steps. Agenda
  polls as long as its process lives, every call of a tick returns or rejects,
  and the ReplicaSet restarts what died. Faults and crashes are bounded by
  counters, never fair. The run has `Step = 0`; with larger steps and a lag
  above the margin a tick may meet a null block at every attempt.
* `Migration!FairSpec`: weak fairness of each consumer's steps, for the same
  reason. It assumes that every token can be described (`Describable`): one that
  cannot goes round for ever in the code, and so do its transactions.
* `Scheduler!FairSpec`: a process that exited, or that the liveness probe gave up, is
  started again.
* `Categorization!FairSpec`: weak fairness of the daily job, of the active task and
  of the scans left behind. Bull hands out jobs as long as the process lives.
* `AssetsProcessor!FairSpec`: weak fairness of the workers' steps, of cache writes, of
  failing a stalled job and of clients asking again; strong fairness of taking a
  waiting job, because a queue serves every job in turn.
* `ProtocolCache!FairSpec`: weak fairness of each requester, which works on its
  request and then makes the next one, and of the expiry of hydrated pools after
  60 seconds. List and pools may expire or not. That a sync comes again and
  again is the scheduled call of `/sync`.

## 4. Proofs

A theorem holds for any pods, consumers, requests, workers, tokens, assets,
pools, limits and bounds that satisfy the named assumptions of its module. They
say what kind of value a parameter has (`BoundsAssumption`, `NumbersAssumption`,
`TxsAssumption`, ...), and that a null value is none of the values it stands beside
(`NoPodAssumption`, `UndefinedAssumption`, `JobsAssumption`, ...). The two that say
more are about the code's surroundings: ids of pools are unique across
protocols (`IdsAssumption`), an endpoint has one chain (`EndpointsAssumption`).

Each invariance proof has the same shape: an inductive `Inv`, which TLC checked on
the module's run first, a lemma for each action, and the property as a
consequence. What follows says what `Inv` adds to the property, and why.

**Crawler.** `Inv` is inductive: the types, the shape of the checkpoint rows,
`NoGap`, and for each pod that its copy of the checkpoint may be old but is never
ahead of the table, that its range stays below the margin, that the blocks it
fetched cover the range, and that what it is about to save has been published.
`NoGap` alone is not inductive: a stale range `last+1..to` closes no gap unless
`last` is at most the checkpoint. From `Inv` follow `TypesAreCorrect`,
`NoBlockIsJumpedOver` and the refinement `CrawlerImplementsFeed`, whose mapping
takes the block numbers of confirmed transaction messages for `delivered` and the
checkpoint for `acknowledged`. Under `DeepEnough` a second invariant, `DeepInv`,
adds that all ranges, messages and fetched blocks are below the depth that a
reorganisation or a lagging node reaches, so that their versions are final. It
gives `NothingPublishedIsTakenBack`, `CheckpointsArePublished` and
`StoredBlocksAreTheChain`.

**Events consumers.** `Inv` says where a consumer's event is and what has been
done when it is at an await: the row exists from `refind` on, the approval is in
`approvals` before `approvals_new` is written, everything is recorded at `ack`.
The second half is `TablesGrow`, a property of steps: no action takes anything
back. Together they give `NothingIsLost`: what was recorded when it was
acknowledged stays recorded, whatever the other consumers do.
`ApprovalsNeverGetOlder` and `TokenRowsOnlyGrow` are the two halves of
`TablesGrow` as action properties. That the queue's `Min` of the waiting
positions exists comes from the well-foundedness of the naturals.

**Scheduler.** `InStep` only speaks of tasks at rest. The invariant adds what a
request may rely on at each await as long as it is alone on its task (`Known`):
`preUpdate` tells whether there is a job, and the row read last is the row.
`Alone` connects this to `disturbed`. `RegistryIsInStep` follows.

**Migration.** The three consumers are proved by rely and guarantee. All that one
relies on from the others is that rows of `assets_new` stay and keep their
descriptions (`RowsGrow`). Each step of each consumer gives that, and keeps the
part of `Inv` of its own (`EventInv`, `TokenInv`, `TxInv`); each part survives the
others' steps by `RowsGrow` alone. `RequestsHaveRows` is not inductive: a consumer
knows of the row one or more awaits before it publishes the request, so `Inv` adds
the token it has in hand (`WithRow`, `wanted`). `AckedIsStored` needs that what a
transactions consumer is about to store was described when it looked, and that
what it is about to acknowledge is settled. `SubTransactionsOnlyGrow` needs
`CoversInv`, that nothing is stored that the consumer at `store` has not found
itself; it is kept only if there is one transactions consumer, which is the
premise of `SubTransactionsStay`. The premise is met by the run, and the property
is false without it (section 3).

**RPC proxy.** `MapIsLastLoad` speaks of the map; `Inv` adds the lists that a
reordering has in hand while it awaits their scores (`MapInv`). They are
permutations of lists of the last load, and `InOrder` gives permutations only. For
`GivesUpLast`, `CallInv` says that the j-th try went to position
`(j - 1) % n + 1` of the list; the theorem is then a fact about numbers, that among
the first m of them two remainders of a division by n occur equally often, or one
of them once more (`TurnsAreEven`). It is proved by counting the turns, without an
induction over m. `NewestFirst` and `NoScoreIsLost` hold of the lists that are
about to be written as well as of the cache (`ScoreInv`); that a list of a clean
endpoint is complete rests on there being one update at most past its read.
`Array.filter` is written as `Filtered`, by the positions that are kept:
`SelectSeq` is recursive, and nothing can be proved about it here.

**Categorization.** `MarkedWasScanned` needs `JobInv`: a page is scanned except for
what still waits or is in flight, and while something waits something is in
flight, so at `mark` all of it is scanned. `HalfIsDone` needs `OffsetInv`: what a
task over unprocessed links found at its start and is not processed is all that
it pages over now, and its offset is at most the number of protocols that it is
done with (`Done`), those of the page under way included. It may be less, since
marking by URL does links of other protocols as well. A page has all unprocessed
links of its protocols, so marking it takes these protocols out of `Left`. The
task ends at an empty page, where the offset is at least the number of protocols
that are left (`EmptyPage`); so those are no more than those it is done with. It
holds for any page size, any links and any sharing of URLs. That `Cardinality`
adds up comes from the library's theorems on finite sets.

**Assets.** `WholeAssets` is a property of the tables, but it is kept because of what
the frames on a worker's stack know (`FrameOK`): what a frame found is whole, the
underlying assets that its loop has passed are whole, and from `find` on all of
them are, so that the new row completes the asset. A frame that is not on top is
in its loop, at the asset of the frame above (`Calls`); that is why a return may
count the asset as done. `StoredInv` says the same of cache writes that nobody
awaits. Rows are never removed, so what a frame knows stays true when the other
worker moves (`StackGrows`), and one lemma (`MovesKeep`) carries the stacks over
any step. `Parts` is a recursive function; `PartsUnfold` gives its equation without
an induction: the sets of what can be reached satisfy it, therefore the function
that `Parts` chooses does. `NoDuplicateJobs` rests on the job of every worker being
active: `Take` and `Add` leave active jobs alone.

**Protocol cache.** What a part of a request knows at an await (`PartInv`) survives
the steps of all others because of `Rely`: offers stay, the newest stored offer
only grows, and, unless a protocol is in `backwards`, cached pools are not replaced
by older ones. `AnswersAreWhole` follows from the offer that a part has in hand.
`ReadsWhatWasSynced` needs the relation of list and pools in Redis (`NotOlder`): the
pools of the cached list are as new as the list or are gone. This is the fact that
the transaction of the mset gives, and that a slow fetch breaks.

**Only model-checked.** Liveness (`CatchesUp`, `TransactionsAreSettled`,
`FetchedInTheEnd`, `GivenUpInTheEnd`, `StoredInTheEnd`, `ServedInTheEnd`,
`SyncedInTheEnd`) is out of the prover's reach. So are the three properties
that a run refutes, for which a counterexample is all there is. Everything else
that `PROJECT.json` lists under a passing run is proved.

## 5. What was found

* `migration_events_consumer/src/migration/migration.service.ts:90`: the cache
  entry precedes the request it stands for (`events_request`). The transactions
  consumer asks again by itself, which is why `TransactionsAreSettled` holds
  all the same.
* `transactions.parsing.service.ts:203`: transfers of tokens without a row are
  skipped although the next function throws for them (`migration_whole`).
* `task.service.ts:41`: a disabled task is started when it is stored. `InStep`
  names it as an exception that lasts until the next boot.
* `task.service.ts:32`: one row with an invalid expression stops the boot
  (`scheduler_resume`).

Also met while modelling, stated as exceptions of properties that hold:

* `endpoints-statistic.service.ts:106`: a reordering that a load overtakes brings
  disabled endpoints back until the next load (`MapIsLastLoad`).
* `protocols.service.ts:85` of the categorization service: the offset grows while
  the result shrinks, so a daily run may do no more than half of the protocols
  (`HalfIsDone`). The bound counts protocols, not links: of 101 protocols with one
  link each but the last, which has 200, the first page marks 100 links and the
  second page is skipped.
* `protocols.service.ts:177` of the same service: a new link is dropped when the
  stored links that were found have its URL, be it another protocol's
  (`SavePage`).
* `aggregator.service.ts:37-44`: after an error or an abort the status stays
  `RUNNING`, and the aggregators are skipped until a restart, though
  `how-to.md:32` has them run daily (`Stuck` in `FetchedInTheEnd`).
* `assets.processor.ts:145`: an asset over a compound one fails on the flat form
  of its part and is given up; `StoredInTheEnd` leaves such assets out.
* `RootProtocolCacheable.ts:80`: a slow fetch stored after a newer one takes the
  list back until the next sync (`backwards` in `ReadsWhatWasSynced`).

## 6. Plan

Done: crawler, its abstract feed, events, token and transactions consumers,
their composition, scheduler, RPC proxy, categorization, assets, protocol cache;
proofs of all their invariants and action properties.

Next, in this order:

1. Abstract specifications beside `BlockFeed`, with refinements that can be proved:
   a table that only grows for the consumers, a store of whole lists for
   `ProtocolCache`.
2. What else the invariants give: which exceptions of the properties (`backwards`,
   `lossy`, `outlived`) are the only ones, each with the action that causes it.
3. `PriceCache` of `apps/price`: reads that fill the cache against updates, and the
   entries without `value` that an update writes first.
4. Versions of rows in `AssetsProcessor`: cache fills that bring an older row back.
5. `PairBatches` of `jobs/assets`: the batches as a pure function against the
   range of all pairs.

## 7. Not modelled

Protocol adapters, vault and price lambdas compute figures from contract calls
with decimal arithmetic; the gateway, account, opportunities and NFT services
forward and read. They keep no state that several actors change. They are also
most of the repository: of its 172 thousand lines well over nine tenths are
contract ABIs, one adapter per protocol and chain, entity and DTO classes, and
lambdas that turn answers of contracts into figures. Modelling them would repeat
arithmetic line by line without an order of events to check, so the share of
lines the map covers is small, and it stays small; what the map does cover is the
code in which actors meet. Amounts, prices, addresses, formatting and logging
are left out of all modules.
