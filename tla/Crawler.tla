------------------------------- MODULE Crawler -------------------------------
(***************************************************************************)
(* The chain crawler of jobs/migration_chain_crawler: an Agenda job that   *)
(* fires every ten seconds, reads the last crawled block from blocks_info, *)
(* fetches the logs and blocks that follow it from an Ethereum node,       *)
(* publishes one message per tracked log and one per transaction to        *)
(* RabbitMQ, and only then stores the new checkpoint.                      *)
(*                                                                         *)
(* Every await of ethWeb3Migration is a step of its own, so that two pods  *)
(* (the old and the new one of a rolling update), a crash, a failed call,  *)
(* a chain reorganisation or a lagging node can come between any two.      *)
(* A block carries one tracked log and one transaction; its content is the *)
(* number of times a reorganisation replaced it. A pod stands for one tick *)
(* at a time: two ticks that overlap in one process behave like two pods.  *)
(***************************************************************************)
EXTENDS Integers, FiniteSets, FiniteSetsExt

CONSTANTS
    Pods,           \* crawler processes that may run at the same time
    NoPod,          \* the Agenda job is not locked
    LastBlocks,     \* ETH_LAST_BLOCKS, blocks below the head that are not read
    Step,           \* ETH_BLOCKS_MIGRATION_STEP
    MaxReorg,       \* the deepest reorganisation of the chain
    MaxLag,         \* how far a node behind ETH_URL may trail the chain
    MaxHead,        \* bound: the highest block of the chain
    MaxReorgs,      \* bound: how often the chain reorganises
    MaxFaults,      \* bound: calls that fail
    MaxCrashes      \* bound: pods that die

ASSUME NoPodAssumption == NoPod \notin Pods

ASSUME BoundsAssumption ==
    /\ LastBlocks \in Nat /\ Step \in Nat /\ MaxReorg \in Nat /\ MaxLag \in Nat
    /\ MaxHead \in Nat /\ MaxReorgs \in Nat
    /\ MaxFaults \in Nat /\ MaxCrashes \in Nat

\* The crawler starts on a chain that is longer than the blocks it leaves out.
ASSUME ChainAssumption == LastBlocks + MaxLag <= MaxHead

VARIABLES
    head,           \* number of the chain's last block
    version,        \* [Blocks -> version of the block that is canonical now]
    tracked,        \* the settings row "tracked_events" is present
    blocksInfo,     \* table blocks_info, the checkpoint; a row's events flag is
                    \* history: its range was read with the settings row there
    ethBlocks,      \* table eth_blocks, <<number, version>>
    sent,           \* messages the broker confirmed, <<kind, number, version>>
    lock,           \* the pod that locked the Agenda job, or NoPod
    pc,             \* [Pods -> where the pod's tick is]
    last,           \* [Pods -> the checkpoint the tick has read, -1 if none]
    to,             \* [Pods -> the last block of the tick's range]
    logs, blocks,   \* [Pods -> what the node answered, <<number, version>>]
    events,         \* [Pods -> the settings row was present in this tick]
    reorgs, faults, crashes     \* counters of the bounds

chainVars == <<head, version>>
dbVars    == <<blocksInfo, ethBlocks>>
tickVars  == <<last, to, logs, blocks, events>>
bounds    == <<reorgs, faults, crashes>>
vars == <<chainVars, tracked, dbVars, sent, lock, pc, tickVars, bounds>>

Blocks == 0..MaxHead
Phases == {"down", "idle", "checkpoint", "head", "logs", "blocks", "settings",
           "events", "transactions", "save"}
Working == Phases \ {"down", "idle"}
Row == [from : Nat, to : Nat, events : BOOLEAN]

\* select to_block from blocks_info order by to_block desc limit 1
Checkpoint == IF blocksInfo = {} THEN -1 ELSE Max({r.to : r \in blocksInfo})

Content(b)  == <<b, version[b]>>
EventMsg(c) == <<"event", c[1], c[2]>>
TxMsg(c)    == <<"tx", c[1], c[2]>>

-----------------------------------------------------------------------------
(* The range of a tick: getFromBlockAndToBlockValues. *)

\* ETH_LAST_BLOCKS is not subtracted.
ConfirmedHeadNoMargin(h) == h
ConfirmedHead(h) == h - LastBlocks

\* One block too far.
FromBlockSkipping(l) == l + 2
FromBlock(l) == l + 1

ToBlock(f, confirmed) == IF f + Step > confirmed THEN confirmed ELSE f + Step

-----------------------------------------------------------------------------
Init ==
    /\ head = LastBlocks + MaxLag
    /\ version = [b \in Blocks |-> 0]
    /\ tracked = FALSE
    /\ blocksInfo = {}
    /\ ethBlocks = {}
    /\ sent = {}
    /\ lock = NoPod
    /\ pc = [p \in Pods |-> "down"]
    /\ last = [p \in Pods |-> -1]
    /\ to = [p \in Pods |-> -1]
    /\ logs = [p \in Pods |-> {}]
    /\ blocks = [p \in Pods |-> {}]
    /\ events = [p \in Pods |-> FALSE]
    /\ reorgs = 0
    /\ faults = 0
    /\ crashes = 0

-----------------------------------------------------------------------------
(* The chain and the nodes behind ETH_URL. *)

Mine ==
    /\ head < MaxHead
    /\ head' = head + 1
    /\ UNCHANGED <<version, tracked, dbVars, sent, lock, pc, tickVars, bounds>>

\* The last d blocks are replaced by d others.
Reorg(d) ==
    /\ d <= head
    /\ reorgs < MaxReorgs
    /\ reorgs' = reorgs + 1
    /\ version' = [b \in Blocks |->
                     IF b > head - d /\ b <= head THEN version[b] + 1 ELSE version[b]]
    /\ UNCHANGED <<head, tracked, dbVars, sent, lock, pc, tickVars, faults, crashes>>

\* How far the node that answers a call has got.
NodeHeads == (head - MaxLag)..head

\* A node may still lack block b, or still have it as it was before a reorganisation.
Trailing(b) == b + MaxLag > head
Unsettled(b) == b + MaxLag + MaxReorg > head

\* The version of each block that the nodes answer with: the calls of one Promise.all
\* are independent and may reach different nodes.
Views == {v \in [Blocks -> 0..MaxReorgs] :
            \A b \in Blocks : IF Unsettled(b) THEN v[b] <= version[b] ELSE v[b] = version[b]}

Answer(view, bs) == {<<b, view[b]>> : b \in bs}

\* An operator inserts the settings row the event parsing depends on.
TrackEvents ==
    /\ ~tracked
    /\ tracked' = TRUE
    /\ UNCHANGED <<chainVars, dbVars, sent, lock, pc, tickVars, bounds>>

-----------------------------------------------------------------------------
(* The Agenda job. *)

\* The job is not cancelled first.
BootKeepingLock(p) ==
    /\ pc[p] = "down"
    /\ pc' = [pc EXCEPT ![p] = "idle"]
    /\ UNCHANGED <<lock, chainVars, tracked, dbVars, sent, tickVars, bounds>>

\* agenda.on('ready'): start, then cancel, define and every. Cancelling deletes
\* the job's document and with it the lock of whoever is running it.
Boot(p) ==
    /\ pc[p] = "down"
    /\ pc' = [pc EXCEPT ![p] = "idle"]
    /\ lock' = NoPod
    /\ UNCHANGED <<chainVars, tracked, dbVars, sent, tickVars, bounds>>

Tick(p) ==
    /\ pc[p] = "idle"
    /\ lock = NoPod
    /\ lock' = p
    /\ pc' = [pc EXCEPT ![p] = "checkpoint"]
    /\ UNCHANGED <<chainVars, tracked, dbVars, sent, tickVars, bounds>>

Forget(p) ==
    /\ last' = [last EXCEPT ![p] = -1]
    /\ to' = [to EXCEPT ![p] = -1]
    /\ logs' = [logs EXCEPT ![p] = {}]
    /\ blocks' = [blocks EXCEPT ![p] = {}]
    /\ events' = [events EXCEPT ![p] = FALSE]

\* done(): the lock is released if the job is still the one this pod locked.
Finish(p) ==
    /\ pc' = [pc EXCEPT ![p] = "idle"]
    /\ lock' = IF lock = p THEN NoPod ELSE lock
    /\ Forget(p)

-----------------------------------------------------------------------------
(* ethWeb3Migration, one step per await. *)

ReadCheckpoint(p) ==
    /\ pc[p] = "checkpoint"
    /\ last' = [last EXCEPT ![p] = Checkpoint]
    /\ pc' = [pc EXCEPT ![p] = "head"]
    /\ UNCHANGED <<chainVars, tracked, dbVars, sent, lock, to, logs, blocks, events,
                   bounds>>

\* A tick with nothing new throws and ends. A node that trails the checkpoint is
\* not recognised: its range is empty, and the tick goes on with it.
ReadHead(p) ==
    /\ pc[p] = "head"
    /\ \E h \in NodeHeads :
         \/ /\ ConfirmedHead(h) = last[p]
            /\ Finish(p)
         \/ /\ ConfirmedHead(h) # last[p]
            /\ to' = [to EXCEPT ![p] = ToBlock(FromBlock(last[p]), ConfirmedHead(h))]
            /\ pc' = [pc EXCEPT ![p] = "logs"]
            /\ UNCHANGED <<lock, last, logs, blocks, events>>
    /\ UNCHANGED <<chainVars, tracked, dbVars, sent, bounds>>

TickRange(p) == FromBlock(last[p])..to[p]

\* eth_getLogs, one call per block, answers [] for a block the node has not got.
FetchLogs(p) ==
    /\ pc[p] = "logs"
    /\ \E view \in Views, got \in SUBSET TickRange(p) :
         /\ \A b \in TickRange(p) \ got : Trailing(b)
         /\ logs' = [logs EXCEPT ![p] = Answer(view, got)]
    /\ pc' = [pc EXCEPT ![p] = "blocks"]
    /\ UNCHANGED <<chainVars, tracked, dbVars, sent, lock, last, to, blocks, events,
                   bounds>>

\* It leaves out the last block of the range.
FetchBlocksShort(p) ==
    /\ pc[p] = "blocks"
    /\ \E view \in Views :
         blocks' = [blocks EXCEPT ![p] = Answer(view, TickRange(p) \ {to[p]})]
    /\ pc' = [pc EXCEPT ![p] = "settings"]
    /\ UNCHANGED <<chainVars, tracked, dbVars, sent, lock, last, to, logs, events, bounds>>

\* eth_getBlock answers null for a block the node has not got, and reading the
\* transactions of null ends the tick.
FetchBlocks(p) ==
    /\ pc[p] = "blocks"
    /\ \/ /\ \E b \in TickRange(p) : Trailing(b)
          /\ Finish(p)
       \/ /\ \E view \in Views :
               blocks' = [blocks EXCEPT ![p] = Answer(view, TickRange(p))]
          /\ pc' = [pc EXCEPT ![p] = "settings"]
          /\ UNCHANGED <<lock, last, to, logs, events>>
    /\ UNCHANGED <<chainVars, tracked, dbVars, sent, bounds>>

\* Without the settings row no log becomes an event.
ReadSettings(p) ==
    /\ pc[p] = "settings"
    /\ events' = [events EXCEPT ![p] = tracked]
    /\ pc' = [pc EXCEPT ![p] = "events"]
    /\ UNCHANGED <<chainVars, tracked, dbVars, sent, lock, last, to, logs, blocks,
                   bounds>>

\* What the current phase publishes.
Outbox(p) ==
    CASE pc[p] = "events" /\ events[p] -> {EventMsg(c) : c \in logs[p]}
      [] pc[p] = "transactions"        -> {TxMsg(c) : c \in blocks[p]}
      [] OTHER                         -> {}

\* The messages of a phase are confirmed in chunks, by Promise.all. One step
\* stands for all of them: other steps see a part only if the phase fails.
PublishEvents(p) ==
    /\ pc[p] = "events"
    /\ sent' = sent \cup Outbox(p)
    /\ pc' = [pc EXCEPT ![p] = "transactions"]
    /\ UNCHANGED <<chainVars, tracked, dbVars, lock, tickVars, bounds>>

\* It does not wait for the confirmations.
PublishTransactionsNotAwaiting(p) ==
    /\ pc[p] = "transactions"
    /\ \E confirmed \in SUBSET Outbox(p) : sent' = sent \cup confirmed
    /\ pc' = [pc EXCEPT ![p] = "save"]
    /\ UNCHANGED <<chainVars, tracked, dbVars, lock, tickVars, bounds>>

PublishTransactions(p) ==
    /\ pc[p] = "transactions"
    /\ sent' = sent \cup Outbox(p)
    /\ pc' = [pc EXCEPT ![p] = "save"]
    /\ UNCHANGED <<chainVars, tracked, dbVars, lock, tickVars, bounds>>

\* The row begins with the checkpoint, not after it.
StoreRangeFromLast(p) ==
    /\ blocksInfo' = blocksInfo \cup
          {[from |-> last[p], to |-> to[p], events |-> events[p]]}
    /\ ethBlocks' = {c \in ethBlocks : \A d \in blocks[p] : c[1] # d[1]} \cup blocks[p]

\* One database transaction: the blocks_info row and the upsert into eth_blocks.
StoreRange(p) ==
    /\ blocksInfo' = blocksInfo \cup
          {[from |-> FromBlock(last[p]), to |-> to[p], events |-> events[p]]}
    /\ ethBlocks' = {c \in ethBlocks : \A d \in blocks[p] : c[1] # d[1]} \cup blocks[p]

SaveData(p) ==
    /\ pc[p] = "save"
    /\ StoreRange(p)
    /\ Finish(p)
    /\ UNCHANGED <<chainVars, tracked, sent, bounds>>

-----------------------------------------------------------------------------
(* What goes wrong. *)

\* A call of the tick rejects: the error is logged and the tick ends. Of the
\* messages being published any part may have reached the broker.
Fault(p) ==
    /\ pc[p] \in Working
    /\ faults < MaxFaults
    /\ faults' = faults + 1
    /\ \E confirmed \in SUBSET Outbox(p) : sent' = sent \cup confirmed
    /\ Finish(p)
    /\ UNCHANGED <<chainVars, tracked, dbVars, reorgs, crashes>>

\* The process dies: the job's document in MongoDB keeps its lock.
Crash(p) ==
    /\ pc[p] # "down"
    /\ crashes < MaxCrashes
    /\ crashes' = crashes + 1
    /\ \E confirmed \in SUBSET Outbox(p) : sent' = sent \cup confirmed
    /\ pc' = [pc EXCEPT ![p] = "down"]
    /\ Forget(p)
    /\ UNCHANGED <<chainVars, tracked, dbVars, lock, reorgs, faults>>

-----------------------------------------------------------------------------
TickStep(p) ==
    \/ Tick(p) \/ ReadCheckpoint(p) \/ ReadHead(p)
    \/ FetchLogs(p) \/ FetchBlocks(p) \/ ReadSettings(p)
    \/ PublishEvents(p) \/ PublishTransactions(p) \/ SaveData(p)

Environment ==
    \/ Mine
    \/ \E d \in 1..MaxReorg : Reorg(d)
    \/ TrackEvents

Next ==
    \/ Environment
    \/ \E p \in Pods : Boot(p) \/ TickStep(p) \/ Fault(p) \/ Crash(p)

Spec == Init /\ [][Next]_vars

\* Agenda polls MongoDB for as long as its process lives, and the replica set
\* restarts a pod that died.
Fairness == \A p \in Pods : WF_vars(Boot(p)) /\ WF_vars(TickStep(p))

FairSpec == Spec /\ Fairness

-----------------------------------------------------------------------------
(* Properties. *)

\* The variables hold the values the code's types and tables allow; in
\* particular a checkpoint row starts at a block number (blocks.info.entity.ts).
TypeOK ==
    /\ head \in Nat
    /\ version \in [Blocks -> Nat]
    /\ tracked \in BOOLEAN
    /\ blocksInfo \subseteq Row
    /\ ethBlocks \subseteq Blocks \X Nat
    /\ sent \subseteq {"event", "tx"} \X Blocks \X Nat
    /\ lock \in Pods \cup {NoPod}
    /\ pc \in [Pods -> Phases]
    /\ last \in [Pods -> Int]
    /\ to \in [Pods -> Int]
    /\ logs \in [Pods -> SUBSET (Blocks \X Nat)]
    /\ blocks \in [Pods -> SUBSET (Blocks \X Nat)]
    /\ events \in [Pods -> BOOLEAN]
    /\ reorgs \in Nat /\ faults \in Nat /\ crashes \in Nat

RangeOf(r) == r.from..r.to

\* ETH_LAST_BLOCKS covers the reorganisations and the lag of the nodes.
DeepEnough == MaxReorg + MaxLag <= LastBlocks

\* With a margin that is deep enough, a block below the checkpoint has had its
\* transaction message published in the version that is canonical, and its event
\* message too if the settings row was there when the range was read: publishing
\* precedes saveDataToDb, whatever crashes, fails, reorganises or overlaps
\* (migration.service.ts, ethWeb3Migration).
CheckpointedIsPublished ==
    \A r \in blocksInfo : \A b \in RangeOf(r) :
        /\ TxMsg(Content(b)) \in sent
        /\ r.events => EventMsg(Content(b)) \in sent

\* With a margin that is deep enough, nothing is published that the chain later takes
\* back, also when the head and the blocks come from different nodes (ETH_LAST_BLOCKS
\* in getFromBlockAndToBlockValues).
PublishedIsCanonical == \A m \in sent : m[3] = version[m[2]]

\* No block is ever jumped over, although two pods may read the same checkpoint
\* and a lagging node produces ranges that end before they begin
\* (getFromBlockAndToBlockValues); no margin is needed for that.
NoGap ==
    \A b \in 0..Checkpoint : \E r \in blocksInfo : b \in RangeOf(r)

\* With a margin that is deep enough, eth_blocks holds exactly the crawled blocks, each
\* in its canonical version, however ticks overlap (saveDataToDb and its upsert).
StoredBlocksMatchCheckpoint ==
    ethBlocks = {Content(b) : b \in 0..Checkpoint}

\* The crawler implements the block feed for transaction messages: it acknowledges a
\* block, by the row in blocks_info, only after the message of every block up to it is
\* with the broker, and the checkpoint never goes back (ethWeb3Migration), margin or not.
Feed == INSTANCE BlockFeed WITH
            Blocks <- Blocks,
            delivered <- {m[2] : m \in {n \in sent : n[1] = "tx"}},
            acknowledged <- Checkpoint

ImplementsFeed == Feed!Spec

\* A block that every node regards as confirmed is crawled in the end: a lock
\* left by a dead pod or a failed tick never stops the crawl for good.
CatchesUp ==
    \A b \in Blocks : (b + LastBlocks + MaxLag <= head) ~> (b <= Checkpoint)
=============================================================================
