---------------------------- MODULE EventsConsumer ----------------------------
(***************************************************************************)
(* The consumers of the asset migration queue                              *)
(* (jobs/migration_events_consumer): each takes one event at a time        *)
(* (prefetch 1), makes sure that the token has a row in assets_new, asks   *)
(* once per cache period for the token's description, stores the transfer  *)
(* or the approval, and acknowledges. Anything that throws puts the event  *)
(* back at its place in the queue, and so does the death of a consumer.    *)
(***************************************************************************)
EXTENDS Integers, Sequences, FiniteSetsExt

CONSTANTS
    Consumers,      \* processes on the asset migration queue
    Assets,         \* token contracts, of one chain
    Preset,         \* those with a complete row from the start
    Events,         \* events that the crawler may publish
    None,           \* no approval
    MaxStream,      \* bound: events published, repeated ones included
    MaxInterrupts   \* bound: deliveries that end with an error or a crash

Statuses == {"none", "bare", "described"}
Types == {"transfer", "approval", "unparsable", "unknown"}

\* A transfer is identified by its token and time, an approval by the token (which stands
\* for owner, token and spender) and the timestamp of its block.
ASSUME EventsAssumption ==
    /\ Events \subseteq [type : Types, asset : Assets, time : Nat]
    /\ None \notin Events
    /\ Preset \subseteq Assets
    /\ MaxStream \in Nat /\ MaxInterrupts \in Nat

VARIABLES
    stream,         \* events published so far, in the order of the queue
    ready,          \* positions of stream that wait in the queue
    acked,          \* positions of stream that were acknowledged
    held,           \* [Consumers -> position it is working on, or 0]
    pc,             \* [Consumers -> the await it is at]
    assets,         \* table assets_new, [Assets -> status]: no row, is_data_present not
                    \* set, is_data_present set
    cached,         \* Redis: tokens whose description was asked for lately
    tokenQueue,     \* tokens with a waiting request for their description
    transfers,      \* table asset_transfers_new
    approvals,      \* table approvals; the rows of a repeated event are one here
    approvalsNew,   \* table approvals_new, [Assets -> the approval in force or None]
    interrupts      \* counter of the bound

queueVars    == <<stream, ready, acked>>
consumerVars == <<held, pc>>
storeVars    == <<transfers, approvals, approvalsNew>>
eventVars == <<queueVars, consumerVars, assets, cached, tokenQueue, storeVars, interrupts>>

Positions == 1..Len(stream)
EventOf(c) == stream[held[c]]
AssetOf(c) == EventOf(c).asset

-----------------------------------------------------------------------------
Init ==
    /\ stream = <<>>
    /\ ready = {}
    /\ acked = {}
    /\ held = [c \in Consumers |-> 0]
    /\ pc = [c \in Consumers |-> "idle"]
    /\ assets = [a \in Assets |-> IF a \in Preset THEN "described" ELSE "none"]
    /\ cached = {}
    /\ tokenQueue = {}
    /\ transfers = {}
    /\ approvals = {}
    /\ approvalsNew = [a \in Assets |-> None]
    /\ interrupts = 0

-----------------------------------------------------------------------------
(* The queue. *)

\* The crawler publishes an event, for the first time or again.
Publish(e) ==
    /\ Len(stream) < MaxStream
    /\ stream' = Append(stream, e)
    /\ ready' = ready \cup {Len(stream')}
    /\ UNCHANGED <<acked, consumerVars, assets, cached, tokenQueue, storeVars, interrupts>>

Goto(c, await) == pc' = [pc EXCEPT ![c] = await]

\* The next event in the order of the queue. toEntity has no entity for a transfer or an
\* approval whose topics or data are missing, which counts as handled, and throws for
\* any other topic.
Deliver(c) ==
    /\ pc[c] = "idle"
    /\ ready # {}
    /\ held' = [held EXCEPT ![c] = Min(ready)]
    /\ ready' = ready \ {Min(ready)}
    /\ Goto(c, CASE stream[Min(ready)].type = "unparsable" -> "ack"
                 [] stream[Min(ready)].type = "unknown"    -> "throw"
                 [] OTHER                                  -> "find")
    /\ UNCHANGED <<stream, acked, assets, cached, tokenQueue, storeVars, interrupts>>

Release(c) ==
    /\ held' = [held EXCEPT ![c] = 0]
    /\ Goto(c, "idle")

\* nack, or the broker misses the consumer: the event is back at its place.
Requeue(c) ==
    /\ ready' = ready \cup {held[c]}
    /\ Release(c)
    /\ UNCHANGED <<stream, acked>>

\* The acknowledgement stands behind the catch block, and the event that was put back is
\* acknowledged as well.
NackThenAck(c) ==
    /\ pc[c] = "throw"
    /\ ready' = ready \cup {held[c]}
    /\ held' = [held EXCEPT ![c] = 0]
    /\ Goto(c, "ack")
    /\ UNCHANGED <<stream, acked, assets, cached, tokenQueue, storeVars, interrupts>>

Nack(c) ==
    /\ pc[c] = "throw"
    /\ Requeue(c)
    /\ UNCHANGED <<assets, cached, tokenQueue, storeVars, interrupts>>

Ack(c) ==
    /\ pc[c] = "ack"
    /\ acked' = acked \cup {held[c]}
    /\ Release(c)
    /\ UNCHANGED <<stream, ready, assets, cached, tokenQueue, storeVars, interrupts>>

\* The event is acknowledged on delivery.
AckingInterrupt(c) ==
    /\ pc[c] # "idle"
    /\ interrupts < MaxInterrupts
    /\ interrupts' = interrupts + 1
    /\ acked' = acked \cup {held[c]}
    /\ Release(c)
    /\ UNCHANGED <<stream, ready, assets, cached, tokenQueue, storeVars>>

\* A call rejects, or the process dies, at any await; the replica set starts it again.
Interrupt(c) ==
    /\ pc[c] # "idle"
    /\ interrupts < MaxInterrupts
    /\ interrupts' = interrupts + 1
    /\ Requeue(c)
    /\ UNCHANGED <<assets, cached, tokenQueue, storeVars>>

-----------------------------------------------------------------------------
(* migrateEvent, one step per await. *)

\* What follows when the row has been read: only transfers ask for a description.
AfterRow(c) ==
    Goto(c, IF EventOf(c).type = "transfer" /\ assets[AssetOf(c)] # "described"
            THEN "cacheGet" ELSE "save")

\* It takes the asset for present, whatever the query finds.
FindAssetTrusting(c) ==
    /\ pc[c] = "find"
    /\ AfterRow(c)
    /\ UNCHANGED <<queueVars, held, assets, cached, tokenQueue, storeVars, interrupts>>

FindAsset(c) ==
    /\ pc[c] = "find"
    /\ IF assets[AssetOf(c)] = "none" THEN Goto(c, "insert") ELSE AfterRow(c)
    /\ UNCHANGED <<queueVars, held, assets, cached, tokenQueue, storeVars, interrupts>>

\* Without the unique index, or as an upsert.
InsertAssetOnFind(c) ==
    /\ pc[c] = "insert"
    /\ assets' = [assets EXCEPT ![AssetOf(c)] = "bare"]
    /\ Goto(c, "refind")
    /\ UNCHANGED <<queueVars, held, cached, tokenQueue, storeVars, interrupts>>

\* The unique index over address and chain rejects the second of two insertions.
InsertAsset(c) ==
    /\ pc[c] = "insert"
    /\ \/ /\ assets[AssetOf(c)] = "none"
          /\ assets' = [assets EXCEPT ![AssetOf(c)] = "bare"]
          /\ Goto(c, "refind")
          /\ UNCHANGED <<queueVars, held>>
       \/ /\ assets[AssetOf(c)] # "none"
          /\ Requeue(c)
          /\ UNCHANGED assets
    /\ UNCHANGED <<cached, tokenQueue, storeVars, interrupts>>

RefindAsset(c) ==
    /\ pc[c] = "refind"
    /\ AfterRow(c)
    /\ UNCHANGED <<queueVars, held, assets, cached, tokenQueue, storeVars, interrupts>>

CacheGet(c) ==
    /\ pc[c] = "cacheGet"
    /\ Goto(c, IF AssetOf(c) \in cached THEN "save" ELSE "cacheSet")
    /\ UNCHANGED <<queueVars, held, assets, cached, tokenQueue, storeVars, interrupts>>

CacheSet(c) ==
    /\ pc[c] = "cacheSet"
    /\ cached' = cached \cup {AssetOf(c)}
    /\ Goto(c, "publish")
    /\ UNCHANGED <<queueVars, held, assets, tokenQueue, storeVars, interrupts>>

PublishToken(c) ==
    /\ pc[c] = "publish"
    /\ tokenQueue' = tokenQueue \cup {AssetOf(c)}
    /\ Goto(c, "save")
    /\ UNCHANGED <<queueVars, held, assets, cached, storeVars, interrupts>>

Save(c) ==
    /\ pc[c] = "save"
    /\ \/ /\ EventOf(c).type = "transfer"
          /\ transfers' = transfers \cup {EventOf(c)}
          /\ Goto(c, "ack")
          /\ UNCHANGED approvals
       \/ /\ EventOf(c).type = "approval"
          /\ approvals' = approvals \cup {EventOf(c)}
          /\ Goto(c, "saveUnique")
          /\ UNCHANGED transfers
    /\ UNCHANGED <<queueVars, held, assets, cached, tokenQueue, approvalsNew, interrupts>>

\* An update without the case expressions.
LastWins(old, e) == e

\* on conflict do update: a row only gives way to one of a later block.
Upserted(old, e) == IF old = None \/ e.time > old.time THEN e ELSE old

SaveUnique(c) ==
    /\ pc[c] = "saveUnique"
    /\ approvalsNew' =
          [approvalsNew EXCEPT ![AssetOf(c)] = Upserted(@, EventOf(c))]
    /\ Goto(c, "ack")
    /\ UNCHANGED <<queueVars, held, assets, cached, tokenQueue, transfers, approvals,
                   interrupts>>

-----------------------------------------------------------------------------
(* Around the consumers. *)

\* The cache entry of a token expires.
Expire(a) ==
    /\ a \in cached
    /\ cached' = cached \ {a}
    /\ UNCHANGED <<queueVars, consumerVars, assets, tokenQueue, storeVars, interrupts>>

\* The token consumer answers a request; TokenConsumer.tla has its steps.
Describe(a) ==
    /\ a \in tokenQueue
    /\ tokenQueue' = tokenQueue \ {a}
    /\ assets' = [assets EXCEPT ![a] = "described"]
    /\ UNCHANGED <<queueVars, consumerVars, cached, storeVars, interrupts>>

-----------------------------------------------------------------------------
Step(c) ==
    \/ Deliver(c) \/ Nack(c) \/ Ack(c)
    \/ FindAsset(c) \/ InsertAsset(c) \/ RefindAsset(c)
    \/ CacheGet(c) \/ CacheSet(c) \/ PublishToken(c)
    \/ Save(c) \/ SaveUnique(c)

Next ==
    \/ \E e \in Events : Publish(e)
    \/ \E c \in Consumers : Step(c) \/ Interrupt(c)
    \/ \E a \in Assets : Expire(a) \/ Describe(a)

Spec == Init /\ [][Next]_eventVars

-----------------------------------------------------------------------------
(* Properties. *)

Awaits == {"find", "insert", "refind", "cacheGet", "cacheSet", "publish", "save",
           "saveUnique", "ack", "throw"}

\* The variables hold the values of the queue, the cache and the tables.
TypeOK ==
    /\ stream \in Seq(Events)
    /\ ready \subseteq Positions /\ acked \subseteq Positions
    /\ held \in [Consumers -> Positions \cup {0}]
    /\ pc \in [Consumers -> Awaits \cup {"idle"}]
    /\ assets \in [Assets -> Statuses]
    /\ cached \subseteq Assets /\ tokenQueue \subseteq Assets
    /\ transfers \subseteq Events /\ approvals \subseteq Events
    /\ approvalsNew \in [Assets -> Events \cup {None}]
    /\ interrupts \in Nat

\* An event leaves the queue for good only when what it says is in the tables, whatever
\* is interrupted, delivered again or handled twice at the same time: the token has a row,
\* the transfer is stored, an approval is stored and the approval in force is not older
\* (handleEvent acknowledges after migrateEvent).
Recorded(e) ==
    /\ e.type \in {"transfer", "approval"} => assets[e.asset] # "none"
    /\ e.type = "transfer" => e \in transfers
    /\ e.type = "approval" => /\ e \in approvals
                              /\ approvalsNew[e.asset] # None
                              /\ approvalsNew[e.asset].time >= e.time
AckedIsRecorded ==
    \A n \in Positions : \/ n \in ready
                         \/ \E c \in Consumers : held[c] = n
                         \/ n \in acked /\ Recorded(stream[n])

\* The approval in force is never replaced by one of an earlier block, although events
\* are delivered out of order and again (the case expressions of ApprovalsStore.save).
ApprovalNeverGetsOlder ==
    [][\A a \in Assets : approvalsNew[a] # None =>
          approvalsNew'[a] # None /\ approvalsNew'[a].time >= approvalsNew[a].time]_eventVars

\* A token keeps its description: a late insertion never takes a row back to the state
\* of a new one (AssetsStore.save and the unique index of assets_new).
RowsOnlyGrow ==
    [][\A a \in Assets : /\ assets[a] = "described" => assets'[a] = "described"
                         /\ assets[a] = "bare" => assets'[a] # "none"]_eventVars

\* migration.service.ts, line 62: "send event to update token with information from
\* COVALENT". A transfer of a token without description is not stored unless a request
\* for the description is on its way.
TransferredTokenIsRequested ==
    \A e \in transfers : assets[e.asset] # "described" => e.asset \in tokenQueue
=============================================================================
