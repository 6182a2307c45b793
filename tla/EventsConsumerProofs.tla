------------------------- MODULE EventsConsumerProofs -------------------------
(***************************************************************************)
(* For any number of consumers, tokens, events, repetitions and            *)
(* interruptions, what the events consumers acknowledge is in the tables,  *)
(* and the tables only grow. The invariant says what a consumer has done   *)
(* when it is at an await.                                                 *)
(***************************************************************************)
EXTENDS EventsConsumer, WellFoundedInduction, TLAPS

WithRow == {"refind", "cacheGet", "cacheSet", "publish", "save", "saveUnique"}
Handling == WithRow \cup {"find", "insert"}

ConsumerInv(c) ==
    /\ held[c] = 0 <=> pc[c] = "idle"
    /\ pc[c] \in Handling => EventOf(c).type \in {"transfer", "approval"}
    /\ pc[c] \in WithRow => assets[AssetOf(c)] # "none"
    /\ pc[c] = "saveUnique" => EventOf(c).type = "approval" /\ EventOf(c) \in approvals
    /\ pc[c] = "ack" => Recorded(EventOf(c))

Inv == TypeOK /\ AckedIsRecorded /\ \A c \in Consumers : ConsumerInv(c)

\* What a step may do to the tables: add rows, describe tokens, replace an approval by
\* one that is not older.
AssetsGrow ==
    \A a \in Assets : /\ assets[a] = "described" => assets'[a] = "described"
                      /\ assets[a] = "bare" => assets'[a] # "none"
ApprovalsGrow ==
    \A a \in Assets : approvalsNew[a] # None =>
        approvalsNew'[a] # None /\ approvalsNew'[a].time >= approvalsNew[a].time
TablesGrow ==
    AssetsGrow /\ ApprovalsGrow /\ transfers \subseteq transfers' /\ approvals \subseteq approvals'

-----------------------------------------------------------------------------
(* The data. *)

\* An event has a type, a token and a time (MigrationEvent).
LEMMA EventFields ==
    ASSUME NEW e \in Events
    PROVE  e.type \in Types /\ e.asset \in Assets /\ e.time \in Nat /\ e # None
BY EventsAssumption

\* A consumer that is not idle holds an event of the stream (prefetch 1).
LEMMA HeldEvent ==
    ASSUME TypeOK, NEW c \in Consumers, ConsumerInv(c), pc[c] # "idle"
    PROVE  held[c] \in Positions /\ EventOf(c) \in Events /\ AssetOf(c) \in Assets
<1>1. held[c] \in Positions
    BY DEF TypeOK, ConsumerInv
<1>2. EventOf(c) \in Events
    BY <1>1 DEF TypeOK, EventOf, Positions
<1> QED
    BY <1>1, <1>2, EventFields DEF AssetOf

\* The next event of the queue is one of those that wait.
LEMMA NextIsReady ==
    ASSUME TypeOK, ready # {}
    PROVE  Min(ready) \in ready /\ Min(ready) \in Positions
<1>1. ready \subseteq Nat /\ ready \subseteq Positions
    BY DEF TypeOK, Positions
<1>2. \E m \in ready : \A k \in ready : m <= k
    <2> DEFINE Less == {p \in Nat \X Nat : p[1] < p[2]}
    <2>1. IsWellFoundedOn(Less, Nat)
        BY NatLessThanWellFounded DEF OpToRel
    <2>2. \E m \in ready : \A k \in ready : ~(<<k, m>> \in Less)
        <3> HIDE DEF Less
        <3> QED
            BY <1>1, <2>1, WFMin
    <2>3. PICK m \in ready : \A k \in ready : ~(<<k, m>> \in Less)
        BY <2>2
    <2>4. ASSUME NEW k \in ready
          PROVE  m <= k
        <3>1. k \in Nat /\ m \in Nat
            BY <1>1
        <3>2. ~(<<k, m>> \in {p \in Nat \X Nat : p[1] < p[2]})
            BY <2>3
        <3> QED
            BY <3>1, <3>2
    <2> QED
        BY <2>4
<1> QED
    BY <1>1, <1>2 DEF Min
-----------------------------------------------------------------------------
(* Types. *)

\* Every step keeps the types (migrateEvent and the queue).
LEMMA StepTypes ==
    ASSUME Inv, NEW c \in Consumers, Step(c) \/ Interrupt(c)
    PROVE  TypeOK'
<1> USE DEF Awaits, Goto
<1>0. TypeOK /\ ConsumerInv(c)
    BY DEF Inv
<1>1. CASE Deliver(c)
    BY <1>0, <1>1, NextIsReady DEF TypeOK, Deliver, Positions, storeVars
<1>2. CASE Nack(c) \/ Interrupt(c)
    <2>1. held[c] \in Positions
        BY <1>0, <1>2, HeldEvent DEF Nack, Interrupt
    <2>2. Requeue(c) /\ interrupts' \in Nat
          /\ UNCHANGED <<assets, cached, tokenQueue, transfers, approvals, approvalsNew>>
        BY <1>0, <1>2 DEF TypeOK, Nack, Interrupt, storeVars
    <2> QED
        BY <1>0, <2>1, <2>2 DEF TypeOK, Requeue, Release, Positions
<1>3. CASE Ack(c)
    <2>1. held[c] \in Positions
        BY <1>0, <1>3, HeldEvent DEF Ack
    <2> QED
        BY <1>0, <1>3, <2>1 DEF TypeOK, Ack, Release, Positions, storeVars
<1>4. CASE FindAsset(c) \/ RefindAsset(c)
    BY <1>0, <1>4 DEF TypeOK, FindAsset, RefindAsset, AfterRow, Positions, queueVars, storeVars
<1>5. CASE InsertAsset(c)
    <2>1. held[c] \in Positions
        BY <1>0, <1>5, HeldEvent DEF InsertAsset
    <2>2. assets' \in [Assets -> Statuses]
        BY <1>0, <1>5 DEF TypeOK, InsertAsset, Statuses
    <2> QED
        BY <1>0, <1>5, <2>1, <2>2
           DEF TypeOK, InsertAsset, Requeue, Release, Positions, queueVars, storeVars
<1>6. CASE CacheGet(c) \/ CacheSet(c) \/ PublishToken(c)
    <2>1. AssetOf(c) \in Assets
        BY <1>0, <1>6, HeldEvent DEF CacheGet, CacheSet, PublishToken
    <2> QED
        BY <1>0, <1>6, <2>1
           DEF TypeOK, CacheGet, CacheSet, PublishToken, Positions, queueVars, storeVars
<1>7. CASE Save(c)
    <2>1. EventOf(c) \in Events
        BY <1>0, <1>7, HeldEvent DEF Save
    <2> QED
        BY <1>0, <1>7, <2>1 DEF TypeOK, Save, Positions, queueVars
<1>8. CASE SaveUnique(c)
    <2>1. EventOf(c) \in Events
        BY <1>0, <1>8, HeldEvent DEF SaveUnique
    <2>2. approvalsNew' \in [Assets -> Events \cup {None}]
        BY <1>0, <1>8, <2>1 DEF TypeOK, SaveUnique, Upserted
    <2> QED
        BY <1>0, <1>8, <2>2 DEF TypeOK, SaveUnique, Positions, queueVars
<1> QED
    BY <1>1, <1>2, <1>3, <1>4, <1>5, <1>6, <1>7, <1>8 DEF Step

\* So do the publication of an event, an expiry and a description.
LEMMA OutsideTypes ==
    ASSUME TypeOK,
           \/ \E e \in Events : Publish(e)
           \/ \E a \in Assets : Expire(a) \/ Describe(a)
    PROVE  TypeOK'
<1>1. CASE \E e \in Events : Publish(e)
    <2>1. PICK e \in Events : Publish(e)
        BY <1>1
    <2>2. stream' \in Seq(Events) /\ Len(stream') = Len(stream) + 1
        BY <2>1 DEF TypeOK, Publish
    <2>3. Len(stream) \in Nat /\ Positions \subseteq Positions' /\ Len(stream') \in Positions'
        BY <2>2 DEF TypeOK, Positions
    <2>4. ready' \subseteq Positions' /\ acked' \subseteq Positions'
        BY <2>1, <2>3 DEF TypeOK, Publish
    <2>5. held' \in [Consumers -> Positions' \cup {0}]
        BY <2>1, <2>3 DEF TypeOK, Publish, consumerVars
    <2> QED
        BY <2>1, <2>2, <2>4, <2>5 DEF TypeOK, Publish, consumerVars, storeVars
<1>2. ASSUME NEW a \in Assets, Expire(a) \/ Describe(a)
      PROVE  TypeOK'
    <2>1. assets' \in [Assets -> Statuses]
        BY <1>2 DEF TypeOK, Expire, Describe, Statuses
    <2> QED
        BY <1>2, <2>1 DEF TypeOK, Expire, Describe, Positions, queueVars, consumerVars, storeVars
<1> QED
    BY <1>1, <1>2

-----------------------------------------------------------------------------
(* The tables only grow. *)

\* The case expressions keep the later approval (ApprovalsStore.save).
LEMMA UpsertedIsLater ==
    ASSUME NEW old \in Events \cup {None}, NEW e \in Events
    PROVE  /\ Upserted(old, e) # None
           /\ Upserted(old, e).time >= e.time
           /\ old # None => Upserted(old, e).time >= old.time
BY EventFields DEF Upserted

\* No step of a consumer takes anything back from a table (migrateEvent).
LEMMA StepGrows ==
    ASSUME Inv, NEW c \in Consumers, Step(c) \/ Interrupt(c)
    PROVE  TablesGrow
<1>0. TypeOK /\ ConsumerInv(c)
    BY DEF Inv
<1>1. \A a \in Assets : approvalsNew[a] # None => approvalsNew[a] \in Events
    BY <1>0 DEF TypeOK
<1>2. UNCHANGED approvalsNew => ApprovalsGrow
    BY <1>1, EventFields DEF ApprovalsGrow
<1>3. UNCHANGED assets => AssetsGrow
    BY DEF AssetsGrow
<1>4. CASE InsertAsset(c)
    <2>1. AssetsGrow
        BY <1>0, <1>4 DEF TypeOK, InsertAsset, AssetsGrow
    <2> QED
        BY <1>2, <1>4, <2>1 DEF InsertAsset, TablesGrow, storeVars
<1>5. CASE Save(c)
    BY <1>2, <1>3, <1>5 DEF Save, TablesGrow
<1>6. CASE SaveUnique(c)
    <2>1. EventOf(c) \in Events /\ AssetOf(c) \in Assets
        BY <1>0, <1>6, HeldEvent DEF SaveUnique
    <2>2. ASSUME NEW a \in Assets, approvalsNew[a] # None
          PROVE  approvalsNew'[a] # None /\ approvalsNew'[a].time >= approvalsNew[a].time
        <3>1. approvalsNew'[a] = approvalsNew[a]
              \/ approvalsNew'[a] = Upserted(approvalsNew[a], EventOf(c))
            BY <1>0, <1>6 DEF TypeOK, SaveUnique
        <3> QED
            BY <1>1, <2>1, <2>2, <3>1, UpsertedIsLater, EventFields
    <2> QED
        BY <1>3, <1>6, <2>2 DEF SaveUnique, TablesGrow, ApprovalsGrow
<1>7. CASE Deliver(c) \/ Nack(c) \/ Ack(c) \/ Interrupt(c)
    BY <1>2, <1>3, <1>7 DEF Deliver, Nack, Ack, Interrupt, TablesGrow, storeVars
<1>8. CASE FindAsset(c) \/ RefindAsset(c) \/ CacheGet(c) \/ CacheSet(c) \/ PublishToken(c)
    BY <1>2, <1>3, <1>8
       DEF FindAsset, RefindAsset, CacheGet, CacheSet, PublishToken, TablesGrow, storeVars
<1> QED
    BY <1>4, <1>5, <1>6, <1>7, <1>8 DEF Step

\* Nor does anything around the consumers.
LEMMA OutsideGrows ==
    ASSUME TypeOK,
           \/ \E e \in Events : Publish(e)
           \/ \E a \in Assets : Expire(a) \/ Describe(a)
           \/ UNCHANGED eventVars
    PROVE  TablesGrow
<1>1. UNCHANGED storeVars
    BY DEF Publish, Expire, Describe, eventVars
<1>2. AssetsGrow
    BY DEF TypeOK, Publish, Expire, Describe, eventVars, AssetsGrow
<1>3. ApprovalsGrow
    BY <1>1, EventFields DEF TypeOK, ApprovalsGrow, storeVars
<1> QED
    BY <1>1, <1>2, <1>3 DEF TablesGrow, storeVars

\* What is recorded stays recorded.
LEMMA RecordedStays ==
    ASSUME TypeOK, TypeOK', TablesGrow, NEW e \in Events, Recorded(e)
    PROVE  Recorded(e)'
<1>1. e.asset \in Assets /\ e.time \in Nat
    BY EventFields
<1>2. assets[e.asset] # "none" => assets'[e.asset] # "none"
    BY <1>1 DEF TypeOK, Statuses, TablesGrow, AssetsGrow
<1>3. approvalsNew[e.asset] # None => approvalsNew[e.asset].time \in Nat
    BY <1>1, EventFields DEF TypeOK
<1>4. approvalsNew'[e.asset] # None => approvalsNew'[e.asset].time \in Nat
    BY <1>1, EventFields DEF TypeOK
<1> QED
    BY <1>1, <1>2, <1>3, <1>4 DEF Recorded, TablesGrow, ApprovalsGrow

-----------------------------------------------------------------------------
(* What a consumer may rely on. *)

\* A consumer that takes no step still has what it had.
LEMMA OthersKeep ==
    ASSUME Inv, TypeOK', TablesGrow, NEW d \in Consumers,
           held'[d] = held[d], pc'[d] = pc[d],
           held[d] # 0 => stream'[held[d]] = stream[held[d]]
    PROVE  ConsumerInv(d)'
<1>0. TypeOK /\ ConsumerInv(d)
    BY DEF Inv
<1>1. CASE pc[d] = "idle"
    BY <1>0, <1>1 DEF ConsumerInv, Handling, WithRow
<1>2. CASE pc[d] # "idle"
    <2>1. EventOf(d) \in Events /\ AssetOf(d) \in Assets
        BY <1>0, <1>2, HeldEvent
    <2>2. EventOf(d)' = EventOf(d) /\ AssetOf(d)' = AssetOf(d)
        BY <1>0, <1>2 DEF ConsumerInv, EventOf, AssetOf
    <2>3. Recorded(EventOf(d)) => Recorded(EventOf(d))'
        <3>1. \A e \in Events : Recorded(e) => Recorded(e)'
            BY <1>0, RecordedStays
        <3> QED
            BY <2>1, <2>2, <3>1 DEF Recorded
    <2>4. assets[AssetOf(d)] # "none" => assets'[AssetOf(d)] # "none"
        BY <1>0, <2>1 DEF TypeOK, Statuses, TablesGrow, AssetsGrow
    <2> QED
        BY <1>0, <1>2, <2>2, <2>3, <2>4 DEF ConsumerInv, TablesGrow
<1> QED
    BY <1>1, <1>2

\* A step of c leaves the stream and the other consumers alone.
LEMMA OnlyTheConsumer ==
    ASSUME TypeOK, NEW c \in Consumers, Step(c) \/ Interrupt(c)
    PROVE  /\ stream' = stream
           /\ \A d \in Consumers \ {c} : held'[d] = held[d] /\ pc'[d] = pc[d]
<1> USE DEF TypeOK, Goto
<1>1. CASE Deliver(c)
    BY <1>1 DEF Deliver
<1>2. CASE Nack(c) \/ Interrupt(c)
    BY <1>2 DEF Nack, Interrupt, Requeue, Release
<1>3. CASE Ack(c)
    BY <1>3 DEF Ack, Release
<1>4. CASE InsertAsset(c)
    BY <1>4 DEF InsertAsset, Requeue, Release, queueVars
<1>5. CASE FindAsset(c) \/ RefindAsset(c)
    BY <1>5 DEF FindAsset, RefindAsset, AfterRow, queueVars
<1>6. CASE CacheGet(c) \/ CacheSet(c) \/ PublishToken(c)
    BY <1>6 DEF CacheGet, CacheSet, PublishToken, queueVars
<1>7. CASE Save(c) \/ SaveUnique(c)
    BY <1>7 DEF Save, SaveUnique, queueVars
<1> QED
    BY <1>1, <1>2, <1>3, <1>4, <1>5, <1>6, <1>7 DEF Step

\* A consumer that took a step knows what its new await relies on (migrateEvent).
LEMMA ConsumerKeeps ==
    ASSUME Inv, TypeOK', TablesGrow, NEW c \in Consumers, Step(c) \/ Interrupt(c)
    PROVE  ConsumerInv(c)'
<1>0. TypeOK /\ ConsumerInv(c)
    BY DEF Inv
<1> USE DEF Handling, WithRow
<1>a. ASSUME Release(c)
      PROVE  ConsumerInv(c)'
    BY <1>0, <1>a DEF TypeOK, Release, Goto, ConsumerInv
<1>1. CASE Nack(c) \/ Interrupt(c) \/ Ack(c)
    BY <1>a, <1>1 DEF Nack, Interrupt, Ack, Requeue
<1>2. CASE Deliver(c)
    <2> DEFINE n == Min(ready)
    <2>1. n \in Positions /\ n # 0
        BY <1>0, <1>2, NextIsReady DEF Deliver, Positions
    <2>2. held'[c] = n /\ EventOf(c)' = stream[n] /\ stream[n] \in Events
        BY <1>0, <1>2, <2>1 DEF TypeOK, Deliver, EventOf, Positions
    <2>3. pc'[c] = IF stream[n].type = "unparsable" THEN "ack"
                   ELSE IF stream[n].type = "unknown" THEN "throw" ELSE "find"
        BY <1>0, <1>2 DEF TypeOK, Deliver, Goto
    <2>4. stream[n].type \in Types
        BY <2>2, EventFields
    <2> HIDE DEF n
    <2>5. stream[n].type = "unparsable" => Recorded(EventOf(c))'
        BY <2>2 DEF Recorded
    <2> QED
        BY <2>1, <2>2, <2>3, <2>4, <2>5 DEF ConsumerInv, Types
<1>3. ASSUME pc[c] \in Handling, UNCHANGED <<queueVars, held>>
      PROVE  /\ held'[c] # 0 /\ pc[c] # "idle"
             /\ EventOf(c)' = EventOf(c) /\ AssetOf(c)' = AssetOf(c)
             /\ EventOf(c) \in Events /\ AssetOf(c) \in Assets
             /\ EventOf(c).type \in {"transfer", "approval"}
    BY <1>0, <1>3, HeldEvent DEF ConsumerInv, EventOf, AssetOf, queueVars
<1>4. CASE FindAsset(c) \/ RefindAsset(c) \/ CacheGet(c) \/ CacheSet(c) \/ PublishToken(c)
    <2>1. pc[c] \in Handling /\ UNCHANGED <<queueVars, held, assets, storeVars>>
        BY <1>4 DEF FindAsset, RefindAsset, CacheGet, CacheSet, PublishToken
    <2>2. pc'[c] \in {"insert", "cacheGet", "save", "cacheSet", "publish"}
        BY <1>0, <1>4 DEF TypeOK, FindAsset, RefindAsset, AfterRow, CacheGet, CacheSet,
                          PublishToken, Goto
    <2>3. pc'[c] # "insert" => assets[AssetOf(c)] # "none"
        BY <1>0, <1>4 DEF TypeOK, ConsumerInv, FindAsset, RefindAsset, CacheGet, CacheSet,
                          PublishToken, AfterRow, Goto
    <2> QED
        BY <1>3, <2>1, <2>2, <2>3 DEF ConsumerInv
<1>5. CASE InsertAsset(c)
    <2>1. CASE assets[AssetOf(c)] = "none"
        <3>1. pc[c] \in Handling /\ UNCHANGED <<queueVars, held>> /\ pc'[c] = "refind"
            BY <1>0, <1>5, <2>1 DEF TypeOK, InsertAsset, Goto
        <3>2. assets'[AssetOf(c)] = "bare"
            BY <1>0, <1>3, <1>5, <2>1, <3>1 DEF TypeOK, InsertAsset
        <3> QED
            BY <1>3, <3>1, <3>2 DEF ConsumerInv
    <2>2. CASE assets[AssetOf(c)] # "none"
        BY <1>a, <1>5, <2>2 DEF InsertAsset, Requeue
    <2> QED
        BY <2>1, <2>2
<1>6. CASE Save(c)
    <2>1. pc[c] = "save" /\ UNCHANGED <<queueVars, held, assets, approvalsNew>>
        BY <1>6 DEF Save
    <2>2. assets[AssetOf(c)] # "none"
        BY <1>0, <2>1 DEF ConsumerInv
    <2>3. CASE EventOf(c).type = "transfer"
        <3>1. pc'[c] = "ack" /\ EventOf(c) \in transfers'
            BY <1>0, <1>6, <2>3 DEF TypeOK, Save, Goto
        <3> QED
            BY <1>3, <2>1, <2>2, <2>3, <3>1 DEF ConsumerInv, Recorded, AssetOf
    <2>4. CASE EventOf(c).type = "approval"
        <3>1. pc'[c] = "saveUnique" /\ EventOf(c) \in approvals'
            BY <1>0, <1>6, <2>4 DEF TypeOK, Save, Goto
        <3> QED
            BY <1>3, <2>1, <2>2, <2>4, <3>1 DEF ConsumerInv
    <2> QED
        BY <1>3, <2>1, <2>3, <2>4
<1>7. CASE SaveUnique(c)
    <2>1. pc[c] = "saveUnique" /\ UNCHANGED <<queueVars, held, assets, approvals>>
          /\ pc'[c] = "ack"
        BY <1>0, <1>7 DEF TypeOK, SaveUnique, Goto
    <2>2. assets[AssetOf(c)] # "none" /\ EventOf(c).type = "approval"
          /\ EventOf(c) \in approvals
        BY <1>0, <2>1 DEF ConsumerInv
    <2>3. EventOf(c) \in Events /\ AssetOf(c) \in Assets
        BY <1>3, <2>1
    <2>4. approvalsNew'[AssetOf(c)] = Upserted(approvalsNew[AssetOf(c)], EventOf(c))
        BY <1>0, <1>7, <2>3 DEF TypeOK, SaveUnique
    <2>5. approvalsNew'[AssetOf(c)] # None /\ approvalsNew'[AssetOf(c)].time >= EventOf(c).time
        BY <1>0, <2>3, <2>4, UpsertedIsLater DEF TypeOK
    <2> QED
        BY <1>3, <2>1, <2>2, <2>5 DEF ConsumerInv, Recorded, AssetOf
<1> QED
    BY <1>1, <1>2, <1>4, <1>5, <1>6, <1>7 DEF Step

-----------------------------------------------------------------------------
(* Nothing leaves the queue unrecorded. *)

\* Where an event of the stream is: in the queue, with a consumer, or recorded.
Placed(n) ==
    \/ n \in ready
    \/ \E c \in Consumers : held[c] = n
    \/ n \in acked /\ Recorded(stream[n])

\* Every step of a consumer leaves each event in its place or takes it to the next one
\* (handleEvent and the broker).
LEMMA StepPlaces ==
    ASSUME Inv, TypeOK', TablesGrow, NEW c \in Consumers, Step(c) \/ Interrupt(c)
    PROVE  AckedIsRecorded'
<1>0. TypeOK /\ ConsumerInv(c)
    BY DEF Inv
<1>1. stream' = stream /\ \A d \in Consumers \ {c} : held'[d] = held[d]
    BY <1>0, OnlyTheConsumer
<1>2. ASSUME NEW n \in Positions, n \in acked', Recorded(stream[n])
      PROVE  Placed(n)'
    <2>1. stream[n] \in Events
        BY <1>0 DEF TypeOK, Positions
    <2>2. \A e \in Events : Recorded(e) => Recorded(e)'
        BY <1>0, RecordedStays
    <2> QED
        BY <1>1, <1>2, <2>1, <2>2 DEF Placed, Recorded
<1>3. ASSUME NEW n \in Positions
      PROVE  Placed(n)'
    <2>0. Placed(n)
        BY DEF Inv, AckedIsRecorded, Placed
    <2>1. CASE Deliver(c)
        <3>1. held'[c] = Min(ready) /\ ready' = ready \ {Min(ready)} /\ acked' = acked
            BY <1>0, <2>1 DEF TypeOK, Deliver
        <3>2. held[c] = 0
            BY <1>0, <2>1 DEF Deliver, ConsumerInv
        <3> QED
            BY <1>1, <1>2, <2>0, <3>1, <3>2 DEF Placed, Positions
    <2>2. CASE Requeue(c)
        <3>1. ready' = ready \cup {held[c]} /\ acked' = acked
            BY <2>2 DEF Requeue
        <3> QED
            BY <1>1, <1>2, <2>0, <3>1 DEF Placed
    <2>3. CASE Ack(c)
        <3>1. acked' = acked \cup {held[c]} /\ ready' = ready
            BY <2>3 DEF Ack
        <3>2. Recorded(stream[held[c]])
            BY <1>0, <2>3 DEF Ack, ConsumerInv, EventOf
        <3> QED
            BY <1>1, <1>2, <2>0, <3>1, <3>2 DEF Placed
    <2>4. CASE UNCHANGED <<queueVars, held>>
        BY <1>2, <2>0, <2>4 DEF Placed, queueVars
    <2>5. Deliver(c) \/ Requeue(c) \/ Ack(c) \/ UNCHANGED <<queueVars, held>>
        BY DEF Step, Nack, Interrupt, FindAsset, InsertAsset, RefindAsset, CacheGet, CacheSet,
               PublishToken, Save, SaveUnique
    <2> QED
        BY <2>1, <2>2, <2>3, <2>4, <2>5
<1> QED
    BY <1>1, <1>3 DEF AckedIsRecorded, Placed, Positions

\* Every step of a consumer keeps the invariant.
LEMMA StepKeeps ==
    ASSUME Inv, NEW c \in Consumers, Step(c) \/ Interrupt(c)
    PROVE  Inv'
<1>1. TypeOK' /\ TablesGrow
    BY StepTypes, StepGrows
<1>2. AckedIsRecorded'
    BY <1>1, StepPlaces
<1>3. ASSUME NEW d \in Consumers
      PROVE  ConsumerInv(d)'
    <2>1. CASE d = c
        BY <1>1, <2>1, ConsumerKeeps
    <2>2. CASE d # c
        <3>1. held'[d] = held[d] /\ pc'[d] = pc[d] /\ stream' = stream
            BY <2>2, OnlyTheConsumer DEF Inv
        <3> QED
            BY <1>1, <3>1, OthersKeep
    <2> QED
        BY <2>1, <2>2
<1> QED
    BY <1>1, <1>2, <1>3 DEF Inv

\* So does everything around the consumers.
LEMMA OutsideKeeps ==
    ASSUME Inv,
           \/ \E e \in Events : Publish(e)
           \/ \E a \in Assets : Expire(a) \/ Describe(a)
           \/ UNCHANGED eventVars
    PROVE  Inv'
<1>0. TypeOK
    BY DEF Inv
<1>1. TypeOK'
    <2>1. CASE UNCHANGED eventVars
        BY <1>0, <2>1 DEF TypeOK, Positions, eventVars, queueVars, consumerVars, storeVars
    <2> QED
        BY <1>0, <2>1, OutsideTypes
<1>2. TablesGrow
    BY <1>0, OutsideGrows
<1>3. UNCHANGED <<held, pc, acked>> /\ ready \subseteq ready'
    BY DEF Publish, Expire, Describe, eventVars, queueVars, consumerVars
<1>4. \A n \in Positions : n \in Positions' /\ stream'[n] = stream[n]
    BY <1>0 DEF TypeOK, Positions, Publish, Expire, Describe, eventVars, queueVars
<1>5. \A n \in Positions' \ Positions : n \in ready'
    BY <1>0 DEF TypeOK, Positions, Publish, Expire, Describe, eventVars, queueVars
<1>6. ASSUME NEW n \in Positions'
      PROVE  Placed(n)'
    <2>1. CASE n \in Positions
        <3>1. stream[n] \in Events
            BY <1>0, <2>1 DEF TypeOK, Positions
        <3>2. \A e \in Events : Recorded(e) => Recorded(e)'
            BY <1>0, <1>1, <1>2, RecordedStays
        <3>3. Recorded(stream[n]) => Recorded(stream[n])'
            BY <1>4, <2>1, <3>1, <3>2 DEF Recorded
        <3> QED
            BY <1>3, <2>1, <3>3 DEF Inv, AckedIsRecorded, Placed
    <2>2. CASE n \notin Positions
        BY <1>5, <2>2 DEF Placed
    <2> QED
        BY <2>1, <2>2
<1>7. ASSUME NEW d \in Consumers
      PROVE  ConsumerInv(d)'
    <2>1. held[d] # 0 => stream'[held[d]] = stream[held[d]]
        BY <1>0, <1>4 DEF TypeOK
    <2> QED
        BY <1>1, <1>2, <1>3, <2>1, OthersKeep
<1> QED
    BY <1>1, <1>6, <1>7 DEF Inv, AckedIsRecorded, Placed

\* Empty queues and tables are in order.
LEMMA InvInit ==
    ASSUME Init
    PROVE  Inv
<1>1. TypeOK
    BY EventsAssumption DEF Init, TypeOK, Positions, Statuses
<1>2. AckedIsRecorded
    BY DEF Init, AckedIsRecorded, Positions
<1>3. \A c \in Consumers : ConsumerInv(c)
    BY DEF Init, ConsumerInv, Handling, WithRow
<1> QED
    BY <1>1, <1>2, <1>3 DEF Inv

-----------------------------------------------------------------------------
\* What a consumer relies on at each await holds at every step (migrateEvent).
THEOREM Invariance == Spec => []Inv
<1>1. Inv /\ [Next]_eventVars => Inv'
    BY StepKeeps, OutsideKeeps DEF Next
<1> QED
    BY InvInit, <1>1, PTL DEF Spec

\* Every variable keeps its type.
THEOREM TypesAreCorrect == Spec => []TypeOK
<1>1. Inv => TypeOK
    BY DEF Inv
<1> QED
    BY Invariance, <1>1, PTL

\* An event that has left the queue is in the tables, for any number of consumers,
\* repetitions and interruptions (handleEvent, migrateEvent).
THEOREM NothingIsLost == Spec => []AckedIsRecorded
<1>1. Inv => AckedIsRecorded
    BY DEF Inv
<1> QED
    BY Invariance, <1>1, PTL

\* Every step of the specification lets the tables only grow.
LEMMA NextGrows ==
    ASSUME Inv, [Next]_eventVars
    PROVE  TablesGrow
<1>1. TypeOK
    BY DEF Inv
<1> QED
    BY <1>1, StepGrows, OutsideGrows DEF Next

\* The approval in force is never replaced by an older one (ApprovalsStore.save).
THEOREM ApprovalsNeverGetOlder == Spec => ApprovalNeverGetsOlder
<1>1. Inv /\ [Next]_eventVars =>
          [\A a \in Assets : approvalsNew[a] # None =>
              approvalsNew'[a] # None /\ approvalsNew'[a].time >= approvalsNew[a].time]_eventVars
    BY NextGrows DEF TablesGrow, ApprovalsGrow
<1> QED
    BY Invariance, <1>1, PTL DEF Spec, ApprovalNeverGetsOlder

\* A token's row never loses what it has (AssetsStore.save and the unique index).
THEOREM TokenRowsOnlyGrow == Spec => RowsOnlyGrow
<1>1. Inv /\ [Next]_eventVars =>
          [\A a \in Assets : /\ assets[a] = "described" => assets'[a] = "described"
                             /\ assets[a] = "bare" => assets'[a] # "none"]_eventVars
    BY NextGrows DEF TablesGrow, AssetsGrow
<1> QED
    BY Invariance, <1>1, PTL DEF Spec, RowsOnlyGrow
=============================================================================
