---------------------------- MODULE CrawlerProofs ----------------------------
(***************************************************************************)
(* What holds of the crawler for every number of pods, every margin, step  *)
(* and chain: no block is jumped over and every stored checkpoint has been *)
(* published (Inv), and, when the margin is deep enough, what is published *)
(* and stored is what the chain keeps (DeepInv).                           *)
(***************************************************************************)
EXTENDS Crawler, TLAPS

HasRange(p) == pc[p] \in {"logs", "blocks", "settings", "events", "transactions", "save"}
HasLogs(p) == HasRange(p) /\ pc[p] # "logs"
HasBlocks(p) == pc[p] \in {"settings", "events", "transactions", "save"}

HeadIsHigh == LastBlocks + MaxLag <= head /\ head <= MaxHead

\* Some row of blocks_info ends last, so that the checkpoint is a block number.
EndsLast(r, rows) == r \in rows /\ \A s \in rows : s.to <= r.to
HasLast == blocksInfo = {} \/ \E r \in blocksInfo : EndsLast(r, blocksInfo)

RowsArePublished ==
    \A r \in blocksInfo : \A b \in RangeOf(r) : \E m \in sent : m[1] = "tx" /\ m[2] = b

\* What a tick of pod p knows: its copy of the checkpoint may be old but is never ahead
\* of the table, its range is below the margin, and it saves what has been published.
LastIsOld(p) == HasRange(p) \/ pc[p] = "head" => last[p] >= -1 /\ last[p] <= Checkpoint
RangeIsConfirmed(p) == HasRange(p) => to[p] >= 0 /\ to[p] + LastBlocks <= head
BlocksCoverRange(p) ==
    HasBlocks(p) => \A b \in TickRange(p) : \E c \in blocks[p] : c[1] = b
SaveIsPublished(p) == pc[p] = "save" => \A c \in blocks[p] : TxMsg(c) \in sent

PodInv(p) ==
    LastIsOld(p) /\ RangeIsConfirmed(p) /\ BlocksCoverRange(p) /\ SaveIsPublished(p)

Inv ==
    /\ TypeOK /\ HeadIsHigh /\ HasLast /\ RowsArePublished /\ NoGap
    /\ \A p \in Pods : PodInv(p)

-----------------------------------------------------------------------------
(* The checkpoint. *)

\* The checkpoint query returns the end of the row that ends last, -1 without rows
\* (getBlockInfoSelectString).
LEMMA LastRow ==
    ASSUME NEW rows, rows \in SUBSET Row, NEW r \in rows, EndsLast(r, rows)
    PROVE  Max({s.to : s \in rows}) = r.to
<1> DEFINE S == {s.to : s \in rows}
<1>1. r.to \in S
    OBVIOUS
<1>2. \A x \in S : x \in Nat /\ r.to >= x
    BY DEF EndsLast, Row
<1>3. \E x \in S : \A y \in S : x >= y
    BY <1>1, <1>2
<1>4. Max(S) \in S /\ \A y \in S : Max(S) >= y
    BY <1>3 DEF Max
<1>5. Max(S) = r.to
    <2> HIDE DEF S
    <2> QED
        BY <1>1, <1>2, <1>4
<1> QED
    BY <1>5

\* With rows the checkpoint is one of their ends and bounds them all.
LEMMA CheckpointIsLast ==
    ASSUME blocksInfo \in SUBSET Row, HasLast
    PROVE  /\ Checkpoint \in Int /\ Checkpoint >= -1
           /\ \A r \in blocksInfo : r.to <= Checkpoint
           /\ Checkpoint = -1 \/ \E r \in blocksInfo : EndsLast(r, blocksInfo) /\ r.to = Checkpoint
<1>1. CASE blocksInfo = {}
    BY <1>1 DEF Checkpoint
<1>2. CASE blocksInfo # {}
    <2>1. PICK r \in blocksInfo : EndsLast(r, blocksInfo)
        BY <1>2 DEF HasLast
    <2>2. Checkpoint = r.to
        BY <1>2, <2>1, LastRow DEF Checkpoint
    <2> QED
        BY <2>1, <2>2 DEF EndsLast, Row
<1> QED
    BY <1>1, <1>2

-----------------------------------------------------------------------------
(* The types. *)

\* The range of a tick that has one consists of blocks of the chain
\* (getFromBlockAndToBlockValues).
LEMMA RangeInBlocks ==
    ASSUME Inv, NEW p \in Pods, HasRange(p)
    PROVE  /\ TickRange(p) \in SUBSET Blocks
           /\ FromBlock(last[p]) \in Nat /\ to[p] \in Nat
           /\ \A b \in TickRange(p) : b + LastBlocks <= head
<1>1. last[p] \in Int /\ to[p] \in Int /\ head \in Int /\ head <= MaxHead
    BY DEF Inv, TypeOK, HeadIsHigh
<1>2. last[p] >= -1 /\ to[p] >= 0 /\ to[p] + LastBlocks <= head
    BY DEF Inv, PodInv, LastIsOld, RangeIsConfirmed
<1> QED
    BY <1>1, <1>2, BoundsAssumption DEF TickRange, FromBlock, Blocks

\* What the nodes answer for a set of blocks is made of blocks and versions
\* (getEventsPromisesArray, getBlocksAndTransactionFromNetwork).
LEMMA AnswerType ==
    ASSUME NEW view \in Views, NEW bs \in SUBSET Blocks
    PROVE  Answer(view, bs) \in SUBSET (Blocks \X Nat)
<1>1. \A b \in bs : view[b] \in Nat
    BY BoundsAssumption DEF Views
<1> QED
    BY <1>1 DEF Answer

\* What a phase publishes is made of messages (Outbox).
LEMMA OutboxType ==
    ASSUME TypeOK, NEW p \in Pods
    PROVE  Outbox(p) \in SUBSET ({"event", "tx"} \X Blocks \X Nat)
<1>1. \A c \in Blocks \X Nat : /\ TxMsg(c) \in {"event", "tx"} \X Blocks \X Nat
                               /\ EventMsg(c) \in {"event", "tx"} \X Blocks \X Nat
    BY DEF TxMsg, EventMsg
<1>2. logs[p] \in SUBSET (Blocks \X Nat) /\ blocks[p] \in SUBSET (Blocks \X Nat)
    BY DEF TypeOK
<1>3. CASE pc[p] = "events" /\ events[p]
    BY <1>1, <1>2, <1>3 DEF Outbox
<1>4. CASE pc[p] = "transactions"
    BY <1>1, <1>2, <1>4 DEF Outbox
<1>5. CASE ~(pc[p] = "events" /\ events[p]) /\ pc[p] # "transactions"
    BY <1>5 DEF Outbox
<1> QED
    BY <1>3, <1>4, <1>5

\* Reading the head ends the tick or gives it a range below the margin
\* (getFromBlockAndToBlockValues).
LEMMA HeadGivesRange ==
    ASSUME Inv, NEW p \in Pods, ReadHead(p)
    PROVE  \/ Finish(p)
           \/ \E n \in Nat : /\ n + LastBlocks <= head
                             /\ to' = [to EXCEPT ![p] = n]
                             /\ pc' = [pc EXCEPT ![p] = "logs"]
                             /\ UNCHANGED <<lock, last, logs, blocks, events>>
<1> SUFFICES ASSUME ~Finish(p)
             PROVE  \E n \in Nat : /\ n + LastBlocks <= head
                                   /\ to' = [to EXCEPT ![p] = n]
                                   /\ pc' = [pc EXCEPT ![p] = "logs"]
                                   /\ UNCHANGED <<lock, last, logs, blocks, events>>
    OBVIOUS
<1>1. PICK h \in NodeHeads :
          /\ to' = [to EXCEPT ![p] = ToBlock(FromBlock(last[p]), ConfirmedHead(h))]
          /\ pc' = [pc EXCEPT ![p] = "logs"]
          /\ UNCHANGED <<lock, last, logs, blocks, events>>
    BY DEF ReadHead
<1> DEFINE n == ToBlock(FromBlock(last[p]), ConfirmedHead(h))
<1>2. last[p] \in Int /\ last[p] >= -1 /\ head \in Int /\ LastBlocks + MaxLag <= head
    BY DEF Inv, TypeOK, HeadIsHigh, PodInv, LastIsOld, ReadHead
<1>3. h \in Int /\ h <= head /\ h >= LastBlocks
    BY <1>2, BoundsAssumption DEF NodeHeads
<1>4. n \in Nat /\ n + LastBlocks <= head
    BY <1>2, <1>3, BoundsAssumption DEF ToBlock, FromBlock, ConfirmedHead
<1> QED
    BY <1>1, <1>4

\* Every step keeps the types.
LEMMA TypeStep ==
    ASSUME Inv, [Next]_vars
    PROVE  TypeOK'
<1> USE DEF Phases, Working
<1>0. TypeOK
    BY DEF Inv
<1>1. CASE Environment
    <2>1. CASE Mine
        BY <1>0, <2>1 DEF TypeOK, Mine, dbVars, tickVars, bounds
    <2>2. ASSUME NEW d \in 1..MaxReorg, Reorg(d)
          PROVE  TypeOK'
        <3>1. version' \in [Blocks -> Nat]
            BY <1>0, <2>2 DEF TypeOK, Reorg
        <3> QED
            BY <1>0, <2>2, <3>1 DEF TypeOK, Reorg, dbVars, tickVars
    <2>3. CASE TrackEvents
        BY <1>0, <2>3 DEF TypeOK, TrackEvents, chainVars, dbVars, tickVars, bounds
    <2> QED
        BY <1>1, <2>1, <2>2, <2>3 DEF Environment
<1>2. ASSUME NEW p \in Pods, Boot(p)
      PROVE  TypeOK'
    BY <1>0, <1>2 DEF TypeOK, Boot, chainVars, dbVars, tickVars, bounds
<1>3. ASSUME NEW p \in Pods, TickStep(p)
      PROVE  TypeOK'
    <2>1. CASE Tick(p)
        BY <1>0, <2>1 DEF TypeOK, Tick, chainVars, dbVars, tickVars, bounds
    <2>2. CASE ReadCheckpoint(p)
        <3>1. Checkpoint \in Int
            BY CheckpointIsLast DEF Inv, TypeOK
        <3> QED
            BY <1>0, <2>2, <3>1 DEF TypeOK, ReadCheckpoint, chainVars, dbVars, bounds
    <2>3. CASE ReadHead(p)
        <3>1. CASE Finish(p)
            BY <1>0, <2>3, <3>1
               DEF TypeOK, ReadHead, Finish, Forget, chainVars, dbVars, bounds
        <3>2. CASE ~Finish(p)
            <4>1. PICK n \in Nat : /\ to' = [to EXCEPT ![p] = n]
                                   /\ pc' = [pc EXCEPT ![p] = "logs"]
                                   /\ UNCHANGED <<lock, last, logs, blocks, events>>
                BY <2>3, <3>2, HeadGivesRange
            <4>2. UNCHANGED <<chainVars, tracked, dbVars, sent, bounds>>
                BY <2>3 DEF ReadHead
            <4> QED
                BY <1>0, <4>1, <4>2 DEF TypeOK, chainVars, dbVars, bounds
        <3> QED
            BY <3>1, <3>2
    <2>4. CASE FetchLogs(p)
        <3>1. TickRange(p) \in SUBSET Blocks
            BY <2>4, RangeInBlocks DEF FetchLogs, HasRange
        <3>2. PICK view \in Views, got \in SUBSET TickRange(p) :
                  logs' = [logs EXCEPT ![p] = Answer(view, got)]
            BY <2>4 DEF FetchLogs
        <3>3. Answer(view, got) \in SUBSET (Blocks \X Nat)
            BY <3>1, <3>2, AnswerType
        <3> QED
            BY <1>0, <2>4, <3>2, <3>3 DEF TypeOK, FetchLogs, chainVars, dbVars, bounds
    <2>5. CASE FetchBlocks(p)
        <3>1. CASE Finish(p)
            BY <1>0, <2>5, <3>1
               DEF TypeOK, FetchBlocks, Finish, Forget, chainVars, dbVars, bounds
        <3>2. CASE ~Finish(p)
            <4>1. TickRange(p) \in SUBSET Blocks
                BY <2>5, RangeInBlocks DEF FetchBlocks, HasRange
            <4>2. PICK view \in Views :
                      blocks' = [blocks EXCEPT ![p] = Answer(view, TickRange(p))]
                BY <2>5, <3>2 DEF FetchBlocks
            <4>3. Answer(view, TickRange(p)) \in SUBSET (Blocks \X Nat)
                BY <4>1, AnswerType
            <4> QED
                BY <1>0, <2>5, <3>2, <4>2, <4>3
                   DEF TypeOK, FetchBlocks, chainVars, dbVars, bounds
        <3> QED
            BY <3>1, <3>2
    <2>6. CASE ReadSettings(p)
        BY <1>0, <2>6 DEF TypeOK, ReadSettings, chainVars, dbVars, bounds
    <2>7. CASE PublishEvents(p)
        BY <1>0, <2>7, OutboxType
           DEF TypeOK, PublishEvents, chainVars, dbVars, tickVars, bounds
    <2>8. CASE PublishTransactions(p)
        BY <1>0, <2>8, OutboxType
           DEF TypeOK, PublishTransactions, chainVars, dbVars, tickVars, bounds
    <2>9. CASE SaveData(p)
        <3>1. FromBlock(last[p]) \in Nat /\ to[p] \in Nat
            BY <2>9, RangeInBlocks DEF SaveData, HasRange
        <3>2. blocksInfo' \in SUBSET Row
            BY <1>0, <2>9, <3>1 DEF TypeOK, SaveData, StoreRange, Row
        <3>3. ethBlocks' \in SUBSET (Blocks \X Nat)
            BY <1>0, <2>9 DEF TypeOK, SaveData, StoreRange
        <3> QED
            BY <1>0, <2>9, <3>2, <3>3
               DEF TypeOK, SaveData, Finish, Forget, chainVars, bounds
    <2> QED
        BY <1>3, <2>1, <2>2, <2>3, <2>4, <2>5, <2>6, <2>7, <2>8, <2>9 DEF TickStep
<1>4. ASSUME NEW p \in Pods, Fault(p)
      PROVE  TypeOK'
    BY <1>0, <1>4, OutboxType DEF TypeOK, Fault, Finish, Forget, chainVars, dbVars
<1>5. ASSUME NEW p \in Pods, Crash(p)
      PROVE  TypeOK'
    BY <1>0, <1>5, OutboxType DEF TypeOK, Crash, Forget, chainVars, dbVars
<1>6. CASE UNCHANGED vars
    BY <1>0, <1>6 DEF TypeOK, vars, chainVars, dbVars, tickVars, bounds
<1> QED
    BY <1>1, <1>2, <1>3, <1>4, <1>5, <1>6 DEF Next

-----------------------------------------------------------------------------
(* What only grows: the chain, the messages, the rows and so the checkpoint. *)

\* Saving leaves a row that ends last, and the checkpoint where the longer of the old
\* and the new row ends (saveDataToDb).
LEMMA SaveAdvances ==
    ASSUME Inv, TypeOK', NEW p \in Pods, SaveData(p)
    PROVE  /\ HasLast'
           /\ Checkpoint' = IF Checkpoint <= to[p] THEN to[p] ELSE Checkpoint
<1> DEFINE row == [from |-> FromBlock(last[p]), to |-> to[p], events |-> events[p]]
<1>1. blocksInfo' = blocksInfo \cup {row} /\ row.to = to[p] /\ to[p] \in Nat
    BY RangeInBlocks DEF SaveData, StoreRange, HasRange
<1>2. /\ Checkpoint \in Int /\ Checkpoint >= -1
      /\ \A r \in blocksInfo : r.to <= Checkpoint
      /\ Checkpoint = -1 \/ \E r \in blocksInfo : EndsLast(r, blocksInfo) /\ r.to = Checkpoint
    BY CheckpointIsLast DEF Inv, TypeOK
<1>3. \A r \in blocksInfo' : r.to \in Nat
    BY DEF TypeOK, Row
<1>4. \E r \in blocksInfo' : /\ EndsLast(r, blocksInfo')
                             /\ r.to = IF Checkpoint <= to[p] THEN to[p] ELSE Checkpoint
    <2>1. CASE Checkpoint <= to[p]
        <3> HIDE DEF row
        <3>1. \A s \in blocksInfo' : s.to <= row.to
            BY <1>1, <1>2, <1>3, <2>1
        <3> QED
            BY <1>1, <2>1, <3>1 DEF EndsLast
    <2>2. CASE ~(Checkpoint <= to[p])
        <3>1. PICK r \in blocksInfo : r.to = Checkpoint
            BY <1>1, <1>2, <2>2
        <3> HIDE DEF row
        <3>2. \A s \in blocksInfo' : s.to <= r.to
            BY <1>1, <1>2, <1>3, <2>2, <3>1
        <3> QED
            BY <1>1, <2>2, <3>1, <3>2 DEF EndsLast
    <2> QED
        BY <2>1, <2>2
<1>5. blocksInfo' # {} /\ blocksInfo' \in SUBSET Row
    BY <1>1 DEF TypeOK
<1>6. PICK r \in blocksInfo' : /\ EndsLast(r, blocksInfo')
                               /\ r.to = IF Checkpoint <= to[p] THEN to[p] ELSE Checkpoint
    BY <1>4
<1>7. Max({s.to : s \in blocksInfo'}) = r.to
    BY <1>5, <1>6, LastRow
<1> QED
    BY <1>5, <1>6, <1>7 DEF HasLast, Checkpoint

\* No step takes back a block of the chain, a message or a row.
LEMMA OnlyGrows ==
    ASSUME Inv, TypeOK', [Next]_vars
    PROVE  /\ head <= head' /\ head' <= MaxHead
           /\ sent \subseteq sent' /\ blocksInfo \subseteq blocksInfo'
           /\ HasLast' /\ Checkpoint <= Checkpoint'
<1>1. head \in Nat /\ head <= MaxHead
    BY DEF Inv, TypeOK, HeadIsHigh
<1>2. CASE \E p \in Pods : SaveData(p)
    <2>1. PICK p \in Pods : SaveData(p)
        BY <1>2
    <2>2. Checkpoint \in Int /\ to[p] \in Int
        BY CheckpointIsLast DEF Inv, TypeOK
    <2>3. HasLast' /\ Checkpoint <= Checkpoint'
        BY <2>1, <2>2, SaveAdvances
    <2>4. /\ head' = head /\ sent' = sent /\ blocksInfo \subseteq blocksInfo'
        BY <2>1 DEF SaveData, StoreRange, chainVars
    <2> QED
        BY <1>1, <2>3, <2>4
<1>3. CASE ~\E p \in Pods : SaveData(p)
    <2>1. blocksInfo' = blocksInfo
        BY <1>3 DEF Next, Environment, TickStep, Mine, Reorg, TrackEvents, Boot, Tick,
              ReadCheckpoint, ReadHead, FetchLogs, FetchBlocks, ReadSettings,
              PublishEvents, PublishTransactions, Fault, Crash, vars, dbVars
    <2>2. sent \subseteq sent'
        BY <1>3 DEF Next, Environment, TickStep, Mine, Reorg, TrackEvents, Boot, Tick,
              ReadCheckpoint, ReadHead, FetchLogs, FetchBlocks, ReadSettings,
              PublishEvents, PublishTransactions, Fault, Crash, vars
    <2>3. head' = head \/ (head' = head + 1 /\ head < MaxHead)
        BY <1>3 DEF Next, Environment, TickStep, Mine, Reorg, TrackEvents, Boot, Tick,
              ReadCheckpoint, ReadHead, FetchLogs, FetchBlocks, ReadSettings,
              PublishEvents, PublishTransactions, Fault, Crash, vars, chainVars
    <2>4. HasLast' /\ Checkpoint' = Checkpoint /\ Checkpoint \in Int
        BY <2>1, CheckpointIsLast DEF Inv, TypeOK, HasLast, EndsLast, Checkpoint
    <2> QED
        BY <1>1, <2>1, <2>2, <2>3, <2>4, BoundsAssumption
<1> QED
    BY <1>2, <1>3

-----------------------------------------------------------------------------
(* What a pod knows stays true. *)

\* A pod that does nothing keeps what it knows, whatever the others do.
LEMMA PodAtRest ==
    ASSUME Inv, TypeOK', [Next]_vars, NEW q \in Pods,
           pc'[q] = pc[q], last'[q] = last[q], to'[q] = to[q], blocks'[q] = blocks[q]
    PROVE  PodInv(q)'
<1>1. PodInv(q) /\ last[q] \in Int /\ to[q] \in Int /\ head \in Int /\ head' \in Int
    BY DEF Inv, TypeOK
<1>2. head <= head' /\ sent \subseteq sent' /\ Checkpoint <= Checkpoint'
    BY OnlyGrows
<1>3. Checkpoint \in Int /\ Checkpoint' \in Int
    <2>1. Checkpoint \in Int
        BY CheckpointIsLast DEF Inv, TypeOK
    <2>2. blocksInfo' \in SUBSET Row /\ HasLast'
        BY OnlyGrows DEF TypeOK
    <2>3. Checkpoint' \in Int
        <3>1. CASE blocksInfo' = {}
            BY <3>1 DEF Checkpoint
        <3>2. CASE blocksInfo' # {}
            <4>1. PICK r \in blocksInfo' : EndsLast(r, blocksInfo')
                BY <2>2, <3>2 DEF HasLast
            <4>2. Checkpoint' = r.to
                BY <2>2, <3>2, <4>1, LastRow DEF Checkpoint
            <4> QED
                BY <2>2, <4>2 DEF Row
        <3> QED
            BY <3>1, <3>2
    <2> QED
        BY <2>1, <2>3
<1>4. LastIsOld(q)'
    BY <1>1, <1>2, <1>3 DEF PodInv, LastIsOld, HasRange
<1>5. RangeIsConfirmed(q)'
    BY <1>1, <1>2, BoundsAssumption DEF PodInv, RangeIsConfirmed, HasRange
<1>6. BlocksCoverRange(q)'
    BY <1>1 DEF PodInv, BlocksCoverRange, HasBlocks, TickRange
<1>7. SaveIsPublished(q)'
    BY <1>1, <1>2 DEF PodInv, SaveIsPublished
<1> QED
    BY <1>4, <1>5, <1>6, <1>7 DEF PodInv

\* Before its tick has read the head of the chain a pod knows nothing.
LEMMA PodBeforeHead ==
    ASSUME NEW q \in Pods, pc'[q] \in {"down", "idle", "checkpoint"}
    PROVE  PodInv(q)'
BY DEF PodInv, LastIsOld, RangeIsConfirmed, BlocksCoverRange, SaveIsPublished,
       HasRange, HasBlocks

\* The nodes answer for every block they are asked about (getBlocksDataFromNetwork).
LEMMA AnswerCovers ==
    ASSUME NEW view, NEW bs, NEW b \in bs
    PROVE  \E c \in Answer(view, bs) : c[1] = b
<1>1. <<b, view[b]>> \in Answer(view, bs)
    BY DEF Answer
<1> QED
    BY <1>1

\* A step of a tick keeps what its pod knows.
LEMMA TickKeepsPodInv ==
    ASSUME Inv, TypeOK', [Next]_vars, NEW p \in Pods, TickStep(p)
    PROVE  PodInv(p)'
<1>0. TypeOK /\ PodInv(p) /\ head \in Int /\ last[p] \in Int /\ to[p] \in Int
    BY DEF Inv, TypeOK
<1>1. CASE Tick(p)
    BY <1>0, <1>1, PodBeforeHead DEF Tick, TypeOK
<1>2. CASE ReadCheckpoint(p)
    <2>1. Checkpoint' = Checkpoint /\ Checkpoint \in Int /\ Checkpoint >= -1
        BY <1>2, CheckpointIsLast DEF ReadCheckpoint, dbVars, Checkpoint, Inv, TypeOK
    <2>2. pc'[p] = "head" /\ last'[p] = Checkpoint
        BY <1>0, <1>2 DEF ReadCheckpoint, TypeOK
    <2> QED
        BY <2>1, <2>2 DEF PodInv, LastIsOld, RangeIsConfirmed, BlocksCoverRange,
              SaveIsPublished, HasRange, HasBlocks
<1>3. CASE ReadHead(p)
    <2>1. CASE Finish(p)
        BY <1>0, <2>1, PodBeforeHead DEF Finish, TypeOK
    <2>2. CASE ~Finish(p)
        <3>1. PICK n \in Nat : /\ n + LastBlocks <= head
                               /\ to' = [to EXCEPT ![p] = n]
                               /\ pc' = [pc EXCEPT ![p] = "logs"]
                               /\ UNCHANGED last
            BY <1>3, <2>2, HeadGivesRange
        <3>2. pc'[p] = "logs" /\ to'[p] = n /\ last'[p] = last[p]
            BY <1>0, <3>1 DEF TypeOK
        <3>3. UNCHANGED <<head, Checkpoint>>
            BY <1>3 DEF ReadHead, chainVars, dbVars, Checkpoint
        <3>4. LastIsOld(p)' /\ RangeIsConfirmed(p)'
            BY <1>0, <1>3, <3>1, <3>2, <3>3
               DEF ReadHead, PodInv, LastIsOld, RangeIsConfirmed, HasRange
        <3> QED
            BY <3>2, <3>4 DEF PodInv, BlocksCoverRange, SaveIsPublished, HasBlocks
    <2> QED
        BY <2>1, <2>2
<1>4. CASE FetchLogs(p)
    <2>1. pc'[p] = "blocks" /\ UNCHANGED <<head, Checkpoint, last, to>>
        BY <1>0, <1>4 DEF FetchLogs, TypeOK, chainVars, dbVars, Checkpoint
    <2>2. LastIsOld(p)' /\ RangeIsConfirmed(p)'
        BY <1>0, <1>4, <2>1 DEF FetchLogs, PodInv, LastIsOld, RangeIsConfirmed, HasRange
    <2> QED
        BY <2>1, <2>2 DEF PodInv, BlocksCoverRange, SaveIsPublished, HasBlocks
<1>5. CASE FetchBlocks(p)
    <2>1. CASE Finish(p)
        BY <1>0, <2>1, PodBeforeHead DEF Finish, TypeOK
    <2>2. CASE ~Finish(p)
        <3>1. PICK view \in Views :
                  blocks' = [blocks EXCEPT ![p] = Answer(view, TickRange(p))]
            BY <1>5, <2>2 DEF FetchBlocks
        <3>2. pc'[p] = "settings" /\ UNCHANGED <<head, Checkpoint, last, to>>
            BY <1>0, <1>5, <2>2 DEF FetchBlocks, TypeOK, chainVars, dbVars, Checkpoint
        <3>3. LastIsOld(p)' /\ RangeIsConfirmed(p)'
            BY <1>0, <1>5, <3>2
               DEF FetchBlocks, PodInv, LastIsOld, RangeIsConfirmed, HasRange
        <3>4. TickRange(p)' = TickRange(p) /\ blocks'[p] = Answer(view, TickRange(p))
            BY <1>0, <3>1, <3>2 DEF TickRange, TypeOK
        <3>5. BlocksCoverRange(p)'
            BY <3>4, AnswerCovers DEF BlocksCoverRange
        <3> QED
            BY <3>2, <3>3, <3>5 DEF PodInv, SaveIsPublished
    <2> QED
        BY <2>1, <2>2
<1>6. CASE ReadSettings(p) \/ PublishEvents(p)
    <2>1. /\ pc[p] \in {"settings", "events"} /\ pc'[p] \in {"events", "transactions"}
          /\ UNCHANGED <<head, Checkpoint, last, to, blocks>>
        BY <1>0, <1>6 DEF ReadSettings, PublishEvents, TypeOK, chainVars, dbVars,
              tickVars, Checkpoint
    <2> QED
        BY <1>0, <2>1 DEF PodInv, LastIsOld, RangeIsConfirmed, BlocksCoverRange,
              SaveIsPublished, HasRange, HasBlocks, TickRange
<1>7. CASE PublishTransactions(p)
    <2>1. /\ pc[p] = "transactions" /\ pc'[p] = "save"
          /\ UNCHANGED <<head, Checkpoint, last, to, blocks>>
        BY <1>0, <1>7 DEF PublishTransactions, TypeOK, chainVars, dbVars, tickVars,
              Checkpoint
    <2>2. LastIsOld(p)' /\ RangeIsConfirmed(p)' /\ BlocksCoverRange(p)'
        BY <1>0, <2>1 DEF PodInv, LastIsOld, RangeIsConfirmed, BlocksCoverRange,
              HasRange, HasBlocks, TickRange
    <2>3. SaveIsPublished(p)'
        BY <1>7, <2>1 DEF PublishTransactions, Outbox, SaveIsPublished
    <2> QED
        BY <2>2, <2>3 DEF PodInv
<1>8. CASE SaveData(p)
    BY <1>0, <1>8, PodBeforeHead DEF SaveData, Finish, TypeOK
<1> QED
    BY <1>1, <1>2, <1>3, <1>4, <1>5, <1>6, <1>7, <1>8 DEF TickStep

\* Every step keeps what every pod knows.
LEMMA PodsStep ==
    ASSUME Inv, TypeOK', [Next]_vars, NEW q \in Pods
    PROVE  PodInv(q)'
<1>0. TypeOK
    BY DEF Inv
<1>1. CASE Environment \/ UNCHANGED vars
    BY <1>1, PodAtRest
       DEF Environment, Mine, Reorg, TrackEvents, vars, tickVars
<1>2. ASSUME NEW p \in Pods, Boot(p)
      PROVE  PodInv(q)'
    <2>1. CASE q = p
        BY <1>0, <1>2, <2>1, PodBeforeHead DEF Boot, TypeOK
    <2>2. CASE q # p
        BY <1>0, <1>2, <2>2, PodAtRest DEF Boot, TypeOK, tickVars
    <2> QED
        BY <2>1, <2>2
<1>3. ASSUME NEW p \in Pods, TickStep(p)
      PROVE  PodInv(q)'
    <2>1. CASE q = p
        BY <1>3, <2>1, TickKeepsPodInv
    <2>2. CASE q # p
        <3>1. pc'[q] = pc[q] /\ last'[q] = last[q] /\ to'[q] = to[q] /\ blocks'[q] = blocks[q]
            BY <1>0, <1>3, <2>2
               DEF TickStep, Tick, ReadCheckpoint, ReadHead, FetchLogs, FetchBlocks,
                   ReadSettings, PublishEvents, PublishTransactions, SaveData, Finish,
                   Forget, TypeOK, tickVars
        <3> QED
            BY <3>1, PodAtRest
    <2> QED
        BY <2>1, <2>2
<1>4. ASSUME NEW p \in Pods, Fault(p) \/ Crash(p)
      PROVE  PodInv(q)'
    <2>1. CASE q = p
        BY <1>0, <1>4, <2>1, PodBeforeHead DEF Fault, Crash, Finish, TypeOK
    <2>2. CASE q # p
        BY <1>0, <1>4, <2>2, PodAtRest DEF Fault, Crash, Finish, Forget, TypeOK
    <2> QED
        BY <2>1, <2>2
<1> QED
    BY <1>1, <1>2, <1>3, <1>4 DEF Next

-----------------------------------------------------------------------------
(* The rows. *)

\* Saving leaves no gap and stores only what has been published: the saved range begins
\* right after a checkpoint of the past and its messages are with the broker.
LEMMA SaveKeepsRows ==
    ASSUME Inv, TypeOK', NEW p \in Pods, SaveData(p)
    PROVE  NoGap' /\ RowsArePublished'
<1> DEFINE row == [from |-> FromBlock(last[p]), to |-> to[p], events |-> events[p]]
<1>1. blocksInfo' = blocksInfo \cup {row} /\ sent' = sent
    BY DEF SaveData, StoreRange
<1>2. /\ PodInv(p) /\ last[p] \in Int /\ to[p] \in Int /\ last[p] >= -1
      /\ last[p] <= Checkpoint /\ Checkpoint \in Int
    BY CheckpointIsLast DEF Inv, TypeOK, PodInv, LastIsOld, SaveData, HasRange
<1>3. RangeOf(row) = TickRange(p)
    BY DEF RangeOf, TickRange
<1>4. NoGap'
    <2> SUFFICES ASSUME NEW b \in 0..Checkpoint'
                 PROVE  \E r \in blocksInfo' : b \in RangeOf(r)
        BY DEF NoGap
    <2>1. CASE b <= Checkpoint
        BY <1>1, <1>2, <2>1 DEF Inv, NoGap
    <2>2. CASE ~(b <= Checkpoint)
        <3>1. Checkpoint' = to[p]
            BY <1>2, <2>2, SaveAdvances
        <3>2. b \in TickRange(p)
            BY <1>2, <2>2, <3>1 DEF TickRange, FromBlock
        <3> QED
            BY <1>1, <1>3, <3>2
    <2> QED
        BY <2>1, <2>2
<1>5. RowsArePublished'
    <2>1. ASSUME NEW b \in TickRange(p)
          PROVE  \E m \in sent : m[1] = "tx" /\ m[2] = b
        <3>1. PICK c \in blocks[p] : c[1] = b
            BY <1>2 DEF PodInv, BlocksCoverRange, HasBlocks, SaveData
        <3>2. TxMsg(c) \in sent
            BY <1>2 DEF PodInv, SaveIsPublished, SaveData
        <3> QED
            BY <3>1, <3>2 DEF TxMsg
    <2> HIDE DEF row
    <2> QED
        BY <1>1, <1>3, <2>1 DEF Inv, RowsArePublished, RangeOf
<1> QED
    BY <1>4, <1>5

\* Every step keeps the invariant.
LEMMA InvStep ==
    ASSUME Inv, [Next]_vars
    PROVE  Inv'
<1>1. TypeOK'
    BY TypeStep
<1>2. HasLast' /\ head <= head' /\ head' <= MaxHead /\ sent \subseteq sent'
    BY <1>1, OnlyGrows
<1>3. HeadIsHigh'
    BY <1>1, <1>2, BoundsAssumption DEF Inv, TypeOK, HeadIsHigh
<1>4. \A q \in Pods : PodInv(q)'
    BY <1>1, PodsStep
<1>5. NoGap' /\ RowsArePublished'
    <2>1. CASE \E p \in Pods : SaveData(p)
        BY <1>1, <2>1, SaveKeepsRows
    <2>2. CASE ~\E p \in Pods : SaveData(p)
        <3>1. blocksInfo' = blocksInfo
            BY <2>2 DEF Next, Environment, TickStep, Mine, Reorg, TrackEvents, Boot, Tick,
                  ReadCheckpoint, ReadHead, FetchLogs, FetchBlocks, ReadSettings,
                  PublishEvents, PublishTransactions, Fault, Crash, vars, dbVars
        <3> QED
            BY <1>2, <3>1 DEF Inv, NoGap, RowsArePublished, RangeOf, Checkpoint
    <2> QED
        BY <2>1, <2>2
<1> QED
    BY <1>1, <1>2, <1>3, <1>4, <1>5 DEF Inv

\* The invariant holds at first: nothing is stored, sent or running.
LEMMA InvInit ==
    ASSUME Init
    PROVE  Inv
<1>1. TypeOK
    <2>1. head \in Nat /\ version \in [Blocks -> Nat]
        BY BoundsAssumption DEF Init
    <2>2. blocksInfo \subseteq Row /\ ethBlocks \subseteq Blocks \X Nat
        BY DEF Init
    <2>3. sent \subseteq {"event", "tx"} \X Blocks \X Nat
        BY DEF Init
    <2>4. /\ pc \in [Pods -> Phases] /\ last \in [Pods -> Int] /\ to \in [Pods -> Int]
          /\ events \in [Pods -> BOOLEAN]
        BY DEF Init, Phases
    <2>5. \A S : [p \in Pods |-> {}] \in [Pods -> SUBSET S]
        OBVIOUS
    <2>6. /\ logs \in [Pods -> SUBSET (Blocks \X Nat)]
          /\ blocks \in [Pods -> SUBSET (Blocks \X Nat)]
        BY <2>5 DEF Init
    <2> QED
        BY <2>1, <2>2, <2>3, <2>4, <2>6 DEF Init, TypeOK
<1>2. HeadIsHigh
    BY BoundsAssumption, ChainAssumption DEF Init, HeadIsHigh
<1>3. HasLast /\ RowsArePublished /\ NoGap
    BY DEF Init, HasLast, RowsArePublished, NoGap, Checkpoint
<1>4. \A p \in Pods : PodInv(p)
    BY DEF Init, PodInv, LastIsOld, RangeIsConfirmed, BlocksCoverRange, SaveIsPublished,
           HasRange, HasBlocks
<1> QED
    BY <1>1, <1>2, <1>3, <1>4 DEF Inv

\* The invariant holds in every reachable state, for every margin.
THEOREM Invariance == Spec => []Inv
<1>1. Init => Inv
    BY InvInit
<1>2. Inv /\ [Next]_vars => Inv'
    BY InvStep
<1> QED
    BY <1>1, <1>2, PTL DEF Spec

\* Every variable keeps the type the code's tables and fields give it.
THEOREM TypesAreCorrect == Spec => []TypeOK
<1>1. Inv => TypeOK
    BY DEF Inv
<1> QED
    BY <1>1, Invariance, PTL

\* No block below the checkpoint was jumped over, with any number of overlapping ticks,
\* crashes, lagging nodes and reorganisations (getFromBlockAndToBlockValues, saveDataToDb).
THEOREM NoBlockIsJumpedOver == Spec => []NoGap
<1>1. Inv => NoGap
    BY DEF Inv
<1> QED
    BY <1>1, Invariance, PTL

-----------------------------------------------------------------------------
(* The crawler implements the block feed. *)

Delivered == {m[2] : m \in {n \in sent : n[1] = "tx"}}

\* A step of the crawler is a step of the feed: a save acknowledges, a confirmed message
\* hands over, and the rest is invisible.
LEMMA FeedStep ==
    ASSUME Inv, Inv', [Next]_vars
    PROVE  [Feed!Next]_(Feed!feedVars)
<1>1. /\ sent \subseteq sent' /\ sent' \subseteq {"event", "tx"} \X Blocks \X Nat
      /\ Checkpoint <= Checkpoint'
    BY OnlyGrows DEF Inv, TypeOK
<1>2. Checkpoint \in Int /\ Checkpoint >= -1
    BY CheckpointIsLast DEF Inv, TypeOK
<1>3. CASE Checkpoint' = Checkpoint
    <2>1. Delivered' \in SUBSET Blocks /\ Delivered' = Delivered \cup Delivered'
        BY <1>1 DEF Delivered
    <2>2. PICK bs \in SUBSET Blocks : Delivered' = Delivered \cup bs
        BY <2>1
    <2>3. Feed!Deliver(bs)
        BY <1>3, <2>2 DEF Feed!Deliver, Delivered
    <2> QED
        BY <2>3 DEF Feed!Next
<1>4. CASE Checkpoint' # Checkpoint
    <2>1. PICK p \in Pods : SaveData(p)
        BY <1>4 DEF Next, Environment, TickStep, Mine, Reorg, TrackEvents, Boot, Tick,
              ReadCheckpoint, ReadHead, FetchLogs, FetchBlocks, ReadSettings,
              PublishEvents, PublishTransactions, Fault, Crash, vars, dbVars, Checkpoint
    <2>2. sent' = sent /\ Delivered' = Delivered
        BY <2>1 DEF SaveData, Delivered
    <2>3. to[p] \in Nat /\ to[p] \in Int /\ to[p] + LastBlocks <= head
        BY <2>1, RangeInBlocks DEF SaveData, HasRange, Inv, PodInv, RangeIsConfirmed
    <2>4. Checkpoint' = to[p] /\ to[p] > Checkpoint
        BY <1>2, <1>4, <2>1, <2>3, SaveAdvances DEF Inv
    <2>5. Checkpoint' \in Blocks
        BY <2>3, <2>4, BoundsAssumption DEF Blocks, Inv, TypeOK, HeadIsHigh
    <2>6. \A b \in (Checkpoint + 1)..Checkpoint' : b \in Delivered
        <3> NoGap' /\ RowsArePublished'
            BY DEF Inv
        <3> TAKE b \in (Checkpoint + 1)..Checkpoint'
        <3>1. b \in 0..Checkpoint'
            BY <1>2, <2>3, <2>4
        <3>2. PICK r \in blocksInfo' : b \in RangeOf(r)
            BY <3>1, NoGap' DEF NoGap
        <3>3. PICK m \in sent' : m[1] = "tx" /\ m[2] = b
            BY <3>2, RowsArePublished' DEF RowsArePublished
        <3> QED
            BY <2>2, <3>3 DEF Delivered
    <2>7. PICK n \in Blocks : n = Checkpoint'
        BY <2>5
    <2>8. Feed!Acknowledge(n)
        BY <1>2, <2>2, <2>3, <2>4, <2>6, <2>7 DEF Feed!Acknowledge, Delivered
    <2> QED
        BY <2>8 DEF Feed!Next
<1> QED
    BY <1>3, <1>4

\* The crawler keeps the feed's promise for any pods, margin, step and faults: a row in
\* blocks_info means that every message up to its end is with the broker, in order
\* (ethWeb3Migration publishes before it saves).
THEOREM CrawlerImplementsFeed == Spec => ImplementsFeed
<1>1. Init => Feed!Init
    BY DEF Init, Feed!Init, Checkpoint
<1>2. Inv /\ Inv' /\ [Next]_vars => [Feed!Next]_(Feed!feedVars)
    BY FeedStep
<1> QED
    BY <1>1, <1>2, Invariance, PTL DEF Spec, ImplementsFeed, Feed!Spec

-----------------------------------------------------------------------------
(* With a margin that is deep enough, nothing at or below it ever changes. *)

RowsConfirmed == \A r \in blocksInfo : r.to + LastBlocks <= head
SentConfirmed == \A m \in sent : m[2] + LastBlocks <= head

LogsExact(p) == HasLogs(p) => logs[p] = {Content(b) : b \in TickRange(p)}
BlocksExact(p) == HasBlocks(p) => blocks[p] = {Content(b) : b \in TickRange(p)}
EventsPublished(p) ==
    pc[p] \in {"transactions", "save"} /\ events[p] =>
        \A b \in TickRange(p) : EventMsg(Content(b)) \in sent

DeepPodInv(p) == LogsExact(p) /\ BlocksExact(p) /\ EventsPublished(p)

DeepInv ==
    /\ RowsConfirmed /\ SentConfirmed /\ PublishedIsCanonical
    /\ CheckpointedIsPublished /\ StoredBlocksMatchCheckpoint
    /\ \A p \in Pods : DeepPodInv(p)

\* A confirmed block is never replaced (ETH_LAST_BLOCKS).
LEMMA ConfirmedIsFinal ==
    ASSUME DeepEnough, Inv, [Next]_vars, NEW b \in Blocks, b + LastBlocks <= head
    PROVE  version'[b] = version[b]
<1>1. head \in Int /\ version \in [Blocks -> Nat] /\ b \in Int
    BY DEF Inv, TypeOK, Blocks
<1>2. ASSUME NEW d \in 1..MaxReorg, Reorg(d)
      PROVE  version'[b] = version[b]
    <2>1. ~(b > head - d)
        BY <1>1, BoundsAssumption DEF DeepEnough
    <2> QED
        BY <1>1, <1>2, <2>1 DEF Reorg
<1>3. CASE ~\E d \in 1..MaxReorg : Reorg(d)
    BY <1>3 DEF Next, Environment, TickStep, Mine, TrackEvents, Boot, Tick,
          ReadCheckpoint, ReadHead, FetchLogs, FetchBlocks, ReadSettings,
          PublishEvents, PublishTransactions, SaveData, Fault, Crash, vars, chainVars
<1> QED
    BY <1>2, <1>3

\* What the nodes answer for a tick's range is what the chain keeps
\* (getEventsDataFromNetwork, getBlocksDataFromNetwork).
LEMMA AnswersAreCanonical ==
    ASSUME DeepEnough, Inv, NEW p \in Pods, HasRange(p), NEW view \in Views
    PROVE  /\ Answer(view, TickRange(p)) = {Content(b) : b \in TickRange(p)}
           /\ \A b \in TickRange(p) : ~Trailing(b)
<1>1. \A b \in TickRange(p) : b \in Blocks /\ b \in Int /\ b + LastBlocks <= head
    BY RangeInBlocks DEF Blocks
<1>2. \A b \in TickRange(p) : ~Trailing(b) /\ ~Unsettled(b)
    BY <1>1, BoundsAssumption DEF DeepEnough, Trailing, Unsettled, Inv, TypeOK
<1>3. \A b \in TickRange(p) : view[b] = version[b]
    BY <1>1, <1>2 DEF Views
<1>4. \A b \in TickRange(p) : <<b, view[b]>> = Content(b)
    BY <1>3 DEF Content
<1> QED
    BY <1>2, <1>4 DEF Answer

\* What a phase publishes is confirmed and canonical (Outbox).
LEMMA OutboxIsCanonical ==
    ASSUME Inv, DeepInv, NEW p \in Pods, NEW m \in Outbox(p)
    PROVE  m[2] + LastBlocks <= head /\ m[3] = version[m[2]]
<1>1. DeepPodInv(p)
    BY DEF DeepInv
<1>2. CASE pc[p] = "events" /\ events[p]
    <2>1. PICK c \in logs[p] : m = EventMsg(c)
        BY <1>2 DEF Outbox
    <2>2. PICK b \in TickRange(p) : c = Content(b)
        BY <1>1, <1>2, <2>1 DEF DeepPodInv, LogsExact, HasLogs, HasRange
    <2>3. b + LastBlocks <= head
        BY <1>2, RangeInBlocks DEF HasRange
    <2> QED
        BY <2>1, <2>2, <2>3 DEF EventMsg, Content
<1>3. CASE pc[p] = "transactions"
    <2>1. PICK c \in blocks[p] : m = TxMsg(c)
        BY <1>3 DEF Outbox
    <2>2. PICK b \in TickRange(p) : c = Content(b)
        BY <1>1, <1>3, <2>1 DEF DeepPodInv, BlocksExact, HasBlocks
    <2>3. b + LastBlocks <= head
        BY <1>3, RangeInBlocks DEF HasRange
    <2> QED
        BY <2>1, <2>2, <2>3 DEF TxMsg, Content
<1> QED
    BY <1>2, <1>3 DEF Outbox

\* Only the phases that publish send anything.
LEMMA SentComesFromOutbox ==
    ASSUME [Next]_vars, NEW m \in sent'
    PROVE  m \in sent \/ \E p \in Pods : m \in Outbox(p)
BY DEF Next, Environment, TickStep, Mine, Reorg, TrackEvents, Boot, Tick,
       ReadCheckpoint, ReadHead, FetchLogs, FetchBlocks, ReadSettings,
       PublishEvents, PublishTransactions, SaveData, Fault, Crash, vars

\* Every step keeps the messages confirmed and canonical.
LEMMA SentStep ==
    ASSUME DeepEnough, Inv, Inv', DeepInv, [Next]_vars
    PROVE  SentConfirmed' /\ PublishedIsCanonical'
<1> SUFFICES ASSUME NEW m \in sent'
             PROVE  m[2] + LastBlocks <= head' /\ m[3] = version'[m[2]]
    BY DEF SentConfirmed, PublishedIsCanonical
<1>1. m[2] + LastBlocks <= head /\ m[3] = version[m[2]]
    BY SentComesFromOutbox, OutboxIsCanonical
       DEF DeepInv, SentConfirmed, PublishedIsCanonical
<1>2. m[2] \in Blocks /\ m[2] \in Int /\ head \in Int /\ head' \in Int
    BY DEF Inv, TypeOK, Blocks
<1>3. version'[m[2]] = version[m[2]]
    BY <1>1, <1>2, ConfirmedIsFinal
<1>4. head <= head'
    BY OnlyGrows DEF Inv
<1> QED
    BY <1>1, <1>2, <1>3, <1>4, BoundsAssumption

\* The blocks of a tick's range keep their content while the tick works on them.
LEMMA RangeKeepsContent ==
    ASSUME DeepEnough, Inv, [Next]_vars, NEW p \in Pods, HasRange(p)
    PROVE  \A b \in TickRange(p) : Content(b)' = Content(b)
BY RangeInBlocks, ConfirmedIsFinal DEF Content

\* A pod whose tick changes nothing but its place keeps exact logs and blocks.
LEMMA DeepPodAtRest ==
    ASSUME DeepEnough, Inv, Inv', DeepInv, [Next]_vars, NEW q \in Pods,
           pc'[q] = pc[q], last'[q] = last[q], to'[q] = to[q],
           logs'[q] = logs[q], blocks'[q] = blocks[q], events'[q] = events[q]
    PROVE  DeepPodInv(q)'
<1>1. DeepPodInv(q)
    BY DEF DeepInv
<1>2. TickRange(q)' = TickRange(q)
    BY DEF TickRange
<1>3. HasRange(q) => \A b \in TickRange(q) : Content(b)' = Content(b)
    BY RangeKeepsContent
<1>4. LogsExact(q)'
    BY <1>1, <1>2, <1>3 DEF DeepPodInv, LogsExact, HasLogs, HasRange
<1>5. BlocksExact(q)'
    BY <1>1, <1>2, <1>3 DEF DeepPodInv, BlocksExact, HasBlocks, HasRange
<1>6. EventsPublished(q)'
    <2>1. sent \subseteq sent'
        BY OnlyGrows DEF Inv
    <2> QED
        BY <1>1, <1>2, <1>3, <2>1 DEF DeepPodInv, EventsPublished, EventMsg, HasRange
<1> QED
    BY <1>4, <1>5, <1>6 DEF DeepPodInv

\* Before its tick has logs a pod has nothing that could be inexact.
LEMMA DeepPodBeforeLogs ==
    ASSUME NEW q \in Pods, pc'[q] \in {"down", "idle", "checkpoint", "head", "logs"}
    PROVE  DeepPodInv(q)'
BY DEF DeepPodInv, LogsExact, BlocksExact, EventsPublished, HasLogs, HasBlocks, HasRange

\* A step of a tick keeps its pod's logs and blocks exact.
LEMMA DeepTickStep ==
    ASSUME DeepEnough, Inv, Inv', DeepInv, [Next]_vars, NEW p \in Pods, TickStep(p)
    PROVE  DeepPodInv(p)'
<1>0. TypeOK /\ DeepPodInv(p)
    BY DEF Inv, DeepInv
<1>1. CASE Tick(p) \/ ReadCheckpoint(p) \/ ReadHead(p) \/ SaveData(p)
    <2>1. pc'[p] \in {"idle", "checkpoint", "head", "logs"}
        BY <1>0, <1>1 DEF Tick, ReadCheckpoint, ReadHead, SaveData, Finish, TypeOK
    <2> QED
        BY <2>1, DeepPodBeforeLogs
<1>2. CASE FetchLogs(p)
    <2>1. PICK view \in Views, got \in SUBSET TickRange(p) :
              /\ \A b \in TickRange(p) \ got : Trailing(b)
              /\ logs' = [logs EXCEPT ![p] = Answer(view, got)]
        BY <1>2 DEF FetchLogs
    <2>2. /\ Answer(view, TickRange(p)) = {Content(b) : b \in TickRange(p)}
          /\ \A b \in TickRange(p) : ~Trailing(b)
        BY <1>2, <2>1, AnswersAreCanonical DEF FetchLogs, HasRange
    <2>3. got = TickRange(p)
        BY <2>1, <2>2
    <2>4. logs'[p] = {Content(b) : b \in TickRange(p)}
        BY <1>0, <2>1, <2>2, <2>3 DEF TypeOK
    <2>5. UNCHANGED <<TickRange(p), version>> /\ pc'[p] = "blocks"
        BY <1>0, <1>2 DEF FetchLogs, TickRange, chainVars, TypeOK
    <2>6. LogsExact(p)'
        BY <2>4, <2>5 DEF LogsExact, Content
    <2> QED
        BY <2>5, <2>6 DEF DeepPodInv, BlocksExact, EventsPublished, HasBlocks
<1>3. CASE FetchBlocks(p)
    <2>1. CASE Finish(p)
        BY <1>0, <2>1, DeepPodBeforeLogs DEF Finish, TypeOK
    <2>2. CASE ~Finish(p)
        <3>1. PICK view \in Views :
                  blocks' = [blocks EXCEPT ![p] = Answer(view, TickRange(p))]
            BY <1>3, <2>2 DEF FetchBlocks
        <3>2. Answer(view, TickRange(p)) = {Content(b) : b \in TickRange(p)}
            BY <1>3, <3>1, AnswersAreCanonical DEF FetchBlocks, HasRange
        <3>3. blocks'[p] = {Content(b) : b \in TickRange(p)}
            BY <1>0, <3>1, <3>2 DEF TypeOK
        <3>4. UNCHANGED <<TickRange(p), version, logs>> /\ pc'[p] = "settings"
            BY <1>0, <1>3, <2>2 DEF FetchBlocks, TickRange, chainVars, TypeOK
        <3>5. BlocksExact(p)'
            BY <3>3, <3>4 DEF BlocksExact, Content
        <3>6. LogsExact(p)'
            BY <1>0, <1>3, <3>4
               DEF FetchBlocks, DeepPodInv, LogsExact, HasLogs, HasRange, Content
        <3> QED
            BY <3>4, <3>5, <3>6 DEF DeepPodInv, EventsPublished
    <2> QED
        BY <2>1, <2>2
<1>4. CASE ReadSettings(p) \/ PublishEvents(p) \/ PublishTransactions(p)
    <2>1. /\ pc[p] \in {"settings", "events", "transactions"}
          /\ pc'[p] \in {"events", "transactions", "save"}
          /\ UNCHANGED <<TickRange(p), version, logs, blocks>>
        BY <1>0, <1>4 DEF ReadSettings, PublishEvents, PublishTransactions, TypeOK,
              TickRange, chainVars, tickVars
    <2>2. LogsExact(p)' /\ BlocksExact(p)'
        BY <1>0, <2>1 DEF DeepPodInv, LogsExact, BlocksExact, HasLogs, HasBlocks,
              HasRange, Content
    <2>3. EventsPublished(p)'
        <3>1. CASE ReadSettings(p)
            BY <1>0, <3>1 DEF ReadSettings, EventsPublished, TypeOK
        <3>2. CASE PublishEvents(p)
            <4>1. events[p] => \A b \in TickRange(p) : EventMsg(Content(b)) \in sent'
                BY <1>0, <3>2 DEF PublishEvents, Outbox, DeepPodInv, LogsExact, HasLogs,
                      HasRange
            <4> QED
                BY <2>1, <3>2, <4>1
                   DEF PublishEvents, EventsPublished, EventMsg, Content, tickVars
        <3>3. CASE PublishTransactions(p)
            <4>1. sent \subseteq sent' /\ UNCHANGED events /\ pc[p] = "transactions"
                BY <3>3 DEF PublishTransactions, tickVars
            <4> QED
                BY <1>0, <2>1, <4>1
                   DEF DeepPodInv, EventsPublished, EventMsg, Content
        <3> QED
            BY <1>4, <3>1, <3>2, <3>3
    <2> QED
        BY <2>2, <2>3 DEF DeepPodInv
<1> QED
    BY <1>1, <1>2, <1>3, <1>4 DEF TickStep

\* Every step keeps every pod's logs and blocks exact.
LEMMA DeepPodsStep ==
    ASSUME DeepEnough, Inv, Inv', DeepInv, [Next]_vars, NEW q \in Pods
    PROVE  DeepPodInv(q)'
<1>0. TypeOK
    BY DEF Inv
<1>1. CASE Environment \/ UNCHANGED vars
    BY <1>1, DeepPodAtRest DEF Environment, Mine, Reorg, TrackEvents, vars, tickVars
<1>2. ASSUME NEW p \in Pods, Boot(p) \/ Fault(p) \/ Crash(p) \/ TickStep(p)
      PROVE  DeepPodInv(q)'
    <2>1. CASE q = p
        <3>1. CASE TickStep(p)
            BY <2>1, <3>1, DeepTickStep
        <3>2. CASE Boot(p) \/ Fault(p) \/ Crash(p)
            BY <1>0, <2>1, <3>2, DeepPodBeforeLogs DEF Boot, Fault, Crash, Finish, TypeOK
        <3> QED
            BY <1>2, <3>1, <3>2
    <2>2. CASE q # p
        <3>1. /\ pc'[q] = pc[q] /\ last'[q] = last[q] /\ to'[q] = to[q]
              /\ logs'[q] = logs[q] /\ blocks'[q] = blocks[q] /\ events'[q] = events[q]
            BY <1>0, <1>2, <2>2
               DEF TickStep, Tick, ReadCheckpoint, ReadHead, FetchLogs, FetchBlocks,
                   ReadSettings, PublishEvents, PublishTransactions, SaveData, Boot,
                   Fault, Crash, Finish, Forget, TypeOK, tickVars
        <3> QED
            BY <3>1, DeepPodAtRest
    <2> QED
        BY <2>1, <2>2
<1> QED
    BY <1>1, <1>2 DEF Next

\* Saving keeps what is stored exact: the saved blocks replace their old copies, and no
\* block beyond the new checkpoint is stored (saveDataToDb).
LEMMA SaveStoresExactly ==
    ASSUME Inv, Inv', DeepInv, NEW p \in Pods, SaveData(p)
    PROVE  StoredBlocksMatchCheckpoint'
<1>1. blocks[p] = {Content(b) : b \in TickRange(p)}
    BY DEF DeepInv, DeepPodInv, BlocksExact, HasBlocks, SaveData
<1>2. ethBlocks = {Content(b) : b \in 0..Checkpoint}
    BY DEF DeepInv, StoredBlocksMatchCheckpoint
<1>3. ethBlocks' = {c \in ethBlocks : \A d \in blocks[p] : c[1] # d[1]} \cup blocks[p]
    BY DEF SaveData, StoreRange
<1>4. UNCHANGED version
    BY DEF SaveData, chainVars
<1>5. /\ last[p] \in Int /\ last[p] >= -1 /\ last[p] <= Checkpoint
      /\ Checkpoint \in Int /\ to[p] \in Int
    BY CheckpointIsLast DEF Inv, TypeOK, PodInv, LastIsOld, SaveData, HasRange
<1>6. Checkpoint' = IF Checkpoint <= to[p] THEN to[p] ELSE Checkpoint
    BY SaveAdvances DEF Inv
<1>7. 0..Checkpoint' = (0..Checkpoint) \cup TickRange(p)
    BY <1>5, <1>6 DEF TickRange, FromBlock
<1>8. ethBlocks' = {Content(b) : b \in (0..Checkpoint) \cup TickRange(p)}
    <2>1. ASSUME NEW c \in ethBlocks'
          PROVE  c \in {Content(b) : b \in (0..Checkpoint) \cup TickRange(p)}
        BY <1>1, <1>2, <1>3
    <2>2. ASSUME NEW b \in TickRange(p)
          PROVE  Content(b) \in ethBlocks'
        BY <1>1, <1>3
    <2>3. ASSUME NEW b \in 0..Checkpoint, b \notin TickRange(p)
          PROVE  Content(b) \in ethBlocks'
        <3>1. \A d \in blocks[p] : d[1] # b
            BY <1>1, <2>3 DEF Content
        <3>2. Content(b) \in ethBlocks /\ Content(b)[1] = b
            BY <1>2 DEF Content
        <3> QED
            BY <1>3, <3>1, <3>2
    <2> QED
        BY <2>1, <2>2, <2>3
<1>9. \A b \in 0..Checkpoint' : Content(b)' = Content(b)
    BY <1>4 DEF Content
<1> QED
    BY <1>7, <1>8, <1>9 DEF StoredBlocksMatchCheckpoint

\* The old rows of a step, and the blocks they cover, stay published as they are.
LEMMA OldRowsStayPublished ==
    ASSUME DeepEnough, Inv, DeepInv, [Next]_vars, NEW r \in blocksInfo,
           NEW b \in RangeOf(r)
    PROVE  /\ TxMsg(Content(b))' \in sent
           /\ r.events => EventMsg(Content(b))' \in sent
<1>1. r \in Row /\ head \in Int /\ head <= MaxHead
    BY DEF Inv, TypeOK, HeadIsHigh
<1>2. b \in Blocks /\ b + LastBlocks <= head
    BY <1>1, BoundsAssumption DEF DeepInv, RowsConfirmed, RangeOf, Row, Blocks
<1>3. version'[b] = version[b]
    BY <1>2, ConfirmedIsFinal
<1> QED
    BY <1>3 DEF DeepInv, CheckpointedIsPublished, TxMsg, EventMsg, Content

\* The row a tick stores covers blocks that are published as the chain keeps them.
LEMMA SavedRowIsPublished ==
    ASSUME Inv, DeepInv, NEW p \in Pods, SaveData(p), NEW b \in TickRange(p)
    PROVE  /\ TxMsg(Content(b)) \in sent
           /\ events[p] => EventMsg(Content(b)) \in sent
<1>1. PodInv(p) /\ DeepPodInv(p) /\ pc[p] = "save"
    BY DEF Inv, DeepInv, SaveData
<1>2. Content(b) \in blocks[p]
    BY <1>1 DEF DeepPodInv, BlocksExact, HasBlocks
<1> QED
    BY <1>1, <1>2 DEF PodInv, SaveIsPublished, DeepPodInv, EventsPublished

\* Every step keeps the deep invariant.
LEMMA DeepStep ==
    ASSUME DeepEnough, Inv, Inv', DeepInv, [Next]_vars
    PROVE  DeepInv'
<1>1. SentConfirmed' /\ PublishedIsCanonical'
    BY SentStep
<1>2. \A q \in Pods : DeepPodInv(q)'
    BY DeepPodsStep
<1>3. /\ head <= head' /\ sent \subseteq sent' /\ head \in Int /\ head' \in Int
      /\ \A r \in blocksInfo : r.to \in Int
    BY OnlyGrows DEF Inv, TypeOK, Row
<1>4. CASE \E p \in Pods : SaveData(p)
    <2>1. PICK p \in Pods : SaveData(p)
        BY <1>4
    <2> DEFINE row == [from |-> FromBlock(last[p]), to |-> to[p], events |-> events[p]]
    <2>2. /\ blocksInfo' = blocksInfo \cup {row} /\ sent' = sent
          /\ UNCHANGED <<head, version>>
        BY <2>1 DEF SaveData, StoreRange, chainVars
    <2>3. RangeOf(row) = TickRange(p) /\ row.to = to[p] /\ row.events = events[p]
        BY DEF RangeOf, TickRange
    <2>4. StoredBlocksMatchCheckpoint'
        BY <2>1, SaveStoresExactly
    <2>5. to[p] + LastBlocks <= head
        BY <2>1 DEF Inv, PodInv, RangeIsConfirmed, SaveData, HasRange
    <2> HIDE DEF row
    <2>6. RowsConfirmed'
        BY <2>2, <2>3, <2>5 DEF DeepInv, RowsConfirmed
    <2>7. CheckpointedIsPublished'
        <3>1. \A b \in TickRange(p) : /\ TxMsg(Content(b)) \in sent
                                      /\ events[p] => EventMsg(Content(b)) \in sent
            BY <2>1, SavedRowIsPublished
        <3>2. \A b : Content(b)' = Content(b)
            BY <2>2 DEF Content
        <3>3. \A r \in blocksInfo' : \A b \in RangeOf(r) :
                  /\ TxMsg(Content(b)) \in sent
                  /\ r.events => EventMsg(Content(b)) \in sent
            BY <2>2, <2>3, <3>1 DEF DeepInv, CheckpointedIsPublished
        <3> QED
            BY <2>2, <3>2, <3>3 DEF CheckpointedIsPublished, TxMsg, EventMsg
    <2> QED
        BY <1>1, <1>2, <2>4, <2>6, <2>7 DEF DeepInv
<1>5. CASE ~\E p \in Pods : SaveData(p)
    <2>1. UNCHANGED <<blocksInfo, ethBlocks>>
        BY <1>5 DEF Next, Environment, TickStep, Mine, Reorg, TrackEvents, Boot, Tick,
              ReadCheckpoint, ReadHead, FetchLogs, FetchBlocks, ReadSettings,
              PublishEvents, PublishTransactions, Fault, Crash, vars, dbVars
    <2>2. RowsConfirmed'
        BY <1>3, <2>1, BoundsAssumption DEF DeepInv, RowsConfirmed
    <2>3. CheckpointedIsPublished'
        BY <1>3, <2>1, OldRowsStayPublished DEF CheckpointedIsPublished
    <2>4. StoredBlocksMatchCheckpoint'
        <3>1. Checkpoint' = Checkpoint
            BY <2>1 DEF Checkpoint
        <3>2. \A b \in 0..Checkpoint : Content(b)' = Content(b)
            <4> TAKE b \in 0..Checkpoint
            <4>1. PICK r \in blocksInfo : b \in RangeOf(r)
                BY DEF Inv, NoGap
            <4>2. /\ r.to \in Int /\ r.from \in Nat /\ r.to + LastBlocks <= head
                  /\ head <= MaxHead
                BY <1>3 DEF DeepInv, RowsConfirmed, Inv, HeadIsHigh, TypeOK, Row
            <4>3. b \in Blocks /\ b + LastBlocks <= head
                BY <1>3, <4>1, <4>2, BoundsAssumption DEF RangeOf, Blocks
            <4> QED
                BY <4>3, ConfirmedIsFinal DEF Content
        <3> QED
            BY <2>1, <3>1, <3>2 DEF DeepInv, StoredBlocksMatchCheckpoint
    <2> QED
        BY <1>1, <1>2, <2>2, <2>3, <2>4 DEF DeepInv
<1> QED
    BY <1>4, <1>5

\* With a margin that is deep enough the deep invariant holds in every reachable state.
LEMMA DeepInvariance ==
    ASSUME DeepEnough
    PROVE  Spec => []DeepInv
<1>1. Init => DeepInv
    BY DEF Init, DeepInv, RowsConfirmed, SentConfirmed, PublishedIsCanonical,
           CheckpointedIsPublished, StoredBlocksMatchCheckpoint, Checkpoint, DeepPodInv,
           LogsExact, BlocksExact, EventsPublished, HasLogs, HasBlocks, HasRange
<1>2. Inv /\ Inv' /\ DeepInv /\ [Next]_vars => DeepInv'
    BY DeepStep
<1> QED
    BY <1>1, <1>2, Invariance, PTL DEF Spec

\* With a margin that is deep enough, nothing is published that the chain takes back
\* (ETH_LAST_BLOCKS in getFromBlockAndToBlockValues).
THEOREM NothingPublishedIsTakenBack ==
    ASSUME DeepEnough
    PROVE  Spec => []PublishedIsCanonical
<1>1. DeepInv => PublishedIsCanonical
    BY DEF DeepInv
<1> QED
    BY <1>1, DeepInvariance, PTL

\* With a margin that is deep enough, every checkpointed block has its transaction message,
\* and its event message if events were tracked, with the broker in the version the chain
\* keeps (ethWeb3Migration).
THEOREM CheckpointsArePublished ==
    ASSUME DeepEnough
    PROVE  Spec => []CheckpointedIsPublished
<1>1. DeepInv => CheckpointedIsPublished
    BY DEF DeepInv
<1> QED
    BY <1>1, DeepInvariance, PTL

\* With a margin that is deep enough, eth_blocks holds the crawled blocks and no other, each
\* as the chain keeps it (saveDataToDb).
THEOREM StoredBlocksAreTheChain ==
    ASSUME DeepEnough
    PROVE  Spec => []StoredBlocksMatchCheckpoint
<1>1. DeepInv => StoredBlocksMatchCheckpoint
    BY DEF DeepInv
<1> QED
    BY <1>1, DeepInvariance, PTL
=============================================================================
