---------------------------- MODULE MigrationProofs ----------------------------
(***************************************************************************)
(* For any number of consumers on the three queues and any number of       *)
(* messages and interruptions: a request for a description is only made    *)
(* for a token with a row, a transaction leaves its queue only when it is  *)
(* stored or dropped, and one transactions consumer never takes a          *)
(* sub-transaction back. Each consumer relies on the others for one thing  *)
(* only, that the rows of assets_new grow, and the proof is composed       *)
(* along that line.                                                        *)
(***************************************************************************)
EXTENDS Migration, WellFoundedInduction, TLAPS

Transfers == UNION {TransfersOf(t) : t \in Txs}
HasRow(a) == a \in Assets /\ assets[a] # "none"

\* The awaits of the events consumer at which it has seen or made the token's row.
WithRow == {"refind", "cacheGet", "cacheSet", "publish"}

\* The shared table and queue.
SharedInv ==
    /\ assets \in [Assets -> {"none", "bare", "described"}]
    /\ \A a \in tokenQueue : HasRow(a)

\* The events consumers: each that is not idle holds a message, and knows of a row.
EventInv ==
    /\ stream \in Seq(Transfers)
    /\ ready \subseteq 1..Len(stream)
    /\ held \in [Consumers -> Nat] /\ DOMAIN pc = Consumers
    /\ \A c \in Consumers : pc[c] # "idle" =>
          /\ held[c] \in 1..Len(stream)
          /\ pc[c] \in WithRow => HasRow(stream[held[c]].asset)

\* The token consumers: each that is not idle holds a token with a row.
TokenInv ==
    /\ DOMAIN tokenHeld = TokenConsumers /\ DOMAIN tokenPc = TokenConsumers
    /\ \A c \in TokenConsumers : IF tokenPc[c] = "idle" THEN tokenHeld[c] = None
                                                        ELSE HasRow(tokenHeld[c])

\* What a transactions consumer knows at its await: the token it will ask for has a row,
\* what it will store was described, and what
\* it will acknowledge is settled.
TxConsumerInv(c) ==
    txPc[c] # "idle" =>
        /\ txHeld[c] \in 1..Len(txStream)
        /\ txPc[c] = "request" => HasRow(wanted[c])
        /\ txPc[c] = "store" =>
              /\ found[c] \subseteq Tokens[txStream[txHeld[c]]]
              /\ \A a \in found[c] : a \in Assets /\ assets[a] = "described"
        /\ txPc[c] = "ack" =>
              transactions[txStream[txHeld[c]]] # None \/ txStream[txHeld[c]] \in dropped

TxInv ==
    /\ txStream \in Seq(Txs)
    /\ txReady \subseteq 1..Len(txStream) /\ txAcked \subseteq 1..Len(txStream)
    /\ txHeld \in [TxConsumers -> Nat] /\ DOMAIN txPc = TxConsumers
    /\ DOMAIN found = TxConsumers /\ DOMAIN wanted = TxConsumers
    /\ transactions \in [Txs -> (SUBSET Assets) \cup {None}]
    /\ \A t \in Txs : transactions[t] # None =>
          \A a \in transactions[t] : a \in Tokens[t] /\ assets[a] = "described"
    /\ \A n \in txAcked : transactions[txStream[n]] # None \/ txStream[n] \in dropped
    /\ \A c \in TxConsumers : TxConsumerInv(c)

\* What a consumer that is alone will store leaves nothing out that is stored.
CoversInv ==
    \A c \in TxConsumers : txPc[c] = "store" =>
        LET t == txStream[txHeld[c]] IN transactions[t] # None => transactions[t] \subseteq found[c]

Inv == SharedInv /\ EventInv /\ TokenInv /\ TxInv

\* What the consumers rely on: rows stay, and so do descriptions.
RowsGrow ==
    /\ assets' \in [Assets -> {"none", "bare", "described"}]
    /\ \A a \in Assets : /\ assets[a] # "none" => assets'[a] # "none"
                         /\ assets[a] = "described" => assets'[a] = "described"

-----------------------------------------------------------------------------
(* What the parts rely on. *)

\* The broker delivers a message that waits (Deliver of both consumers takes the first).
LEMMA FirstIsReady ==
    ASSUME NEW S \in SUBSET Nat, S # {}
    PROVE  E!Min(S) \in S /\ X!Min(S) \in S
<1> DEFINE Less == {p \in Nat \X Nat : p[1] < p[2]}
<1>1. IsWellFoundedOn(Less, Nat)
    BY NatLessThanWellFounded DEF OpToRel
<1>2. \E m \in S : \A k \in S : ~(<<k, m>> \in Less)
    <2> HIDE DEF Less
    <2> QED
        BY <1>1, WFMin
<1>3. PICK m \in S : \A k \in S : ~(<<k, m>> \in Less)
    BY <1>2
<1>4. ASSUME NEW k \in S
      PROVE  m <= k
    <2>1. k \in Nat /\ m \in Nat
        OBVIOUS
    <2>2. ~(<<k, m>> \in {p \in Nat \X Nat : p[1] < p[2]})
        BY <1>3
    <2> QED
        BY <2>1, <2>2
<1> QED
    BY <1>3, <1>4 DEF E!Min, X!Min

\* The transfers of the transactions are of tokens (parseTransactions).
LEMMA TransferAsset ==
    ASSUME NEW e \in Transfers
    PROVE  e.asset \in Assets /\ e.type = "transfer"
BY TxsAssumption DEF Transfers, TransfersOf, TransferOf

\* A row stays while the rows grow.
LEMMA RowStays ==
    ASSUME RowsGrow, NEW a, HasRow(a)
    PROVE  HasRow(a)'
BY DEF RowsGrow, HasRow

\* The events consumers are not disturbed by steps of others that let the rows grow.
LEMMA EventFrame ==
    ASSUME EventInv, RowsGrow, UNCHANGED eventOwn
    PROVE  EventInv'
BY RowStays DEF EventInv, eventOwn

\* Neither are the token consumers.
LEMMA TokenFrame ==
    ASSUME TokenInv, RowsGrow, UNCHANGED tokenOwn
    PROVE  TokenInv'
BY RowStays DEF TokenInv, tokenOwn

\* Nor the transactions consumers.
LEMMA TxFrame ==
    ASSUME TxInv, RowsGrow, UNCHANGED txOwn
    PROVE  TxInv'
<1>1. /\ txStream' = txStream /\ txReady' = txReady /\ txAcked' = txAcked /\ txHeld' = txHeld
      /\ txPc' = txPc /\ found' = found /\ wanted' = wanted /\ transactions' = transactions
      /\ dropped' = dropped
    BY DEF txOwn
<1>2. ASSUME NEW c \in TxConsumers
      PROVE  TxConsumerInv(c)'
    BY <1>1, RowStays DEF TxInv, TxConsumerInv, RowsGrow
<1>3. ASSUME NEW t \in Txs, transactions[t] # None, NEW a \in transactions[t]
      PROVE  a \in Tokens[t] /\ assets'[a] = "described"
    <2>1. a \in Tokens[t] /\ assets[a] = "described"
        BY <1>3 DEF TxInv
    <2>2. a \in Assets
        BY <2>1, TxsAssumption
    <2> QED
        BY <2>1, <2>2 DEF RowsGrow
<1> QED
    BY <1>1, <1>2, <1>3 DEF TxInv

\* An assets table that is not written grows, trivially.
LEMMA SameRows ==
    ASSUME SharedInv, assets' = assets
    PROVE  RowsGrow
BY DEF SharedInv, RowsGrow

-----------------------------------------------------------------------------
(* The events consumer. *)

\* The token of the message at hand.
LEMMA HeldTransfer ==
    ASSUME EventInv, NEW c \in Consumers, pc[c] # "idle"
    PROVE  /\ held[c] \in 1..Len(stream)
           /\ stream[held[c]] \in Transfers
           /\ stream[held[c]].asset \in Assets
BY TransferAsset DEF EventInv

\* A consumer that gives its message back or acknowledges it is idle.
LEMMA EventRelease ==
    ASSUME EventInv, NEW c \in Consumers, pc[c] # "idle",
           E!Release(c), stream' = stream, ready' \subseteq ready \cup {held[c]}, assets' = assets
    PROVE  EventInv'
<1>1. held[c] \in 1..Len(stream)
    BY HeldTransfer
<1> QED
    BY <1>1 DEF EventInv, E!Release, E!Goto, HasRow

\* A consumer that goes on to an await that needs a row knows of one.
LEMMA EventGoto ==
    ASSUME EventInv, NEW c \in Consumers, pc[c] # "idle", NEW await, E!Goto(c, await),
           UNCHANGED <<stream, ready, held>>, RowsGrow,
           await \in WithRow => HasRow(stream[held[c]].asset)'
    PROVE  EventInv'
<1>1. pc' = [pc EXCEPT ![c] = await] /\ stream' = stream /\ ready' = ready /\ held' = held
    BY DEF E!Goto
<1>2. held[c] \in 1..Len(stream)
    BY HeldTransfer
<1>3. ASSUME NEW d \in Consumers, pc'[d] # "idle"
      PROVE  /\ held[d] \in 1..Len(stream)
             /\ pc'[d] \in WithRow => HasRow(stream[held[d]].asset)'
    <2>1. CASE d = c
        BY <1>1, <1>2, <2>1 DEF EventInv
    <2>2. CASE d # c
        BY <1>1, <1>3, <2>2, RowStays DEF EventInv
    <2> QED
        BY <2>1, <2>2
<1> QED
    BY <1>1, <1>3 DEF EventInv

\* migrateEvent keeps the rows, and asks only for descriptions of tokens with a row.
LEMMA EventStepInv ==
    ASSUME Inv, NEW c \in Consumers, E!Step(c) \/ E!Interrupt(c)
    PROVE  RowsGrow /\ SharedInv' /\ EventInv'
<1> USE DEF E!storeVars, E!queueVars
<1>0. SharedInv /\ EventInv
    BY DEF Inv
<1>1. CASE E!Deliver(c)
    <2>1. E!Min(ready) \in ready /\ E!Min(ready) \in 1..Len(stream)
        BY <1>0, <1>1, FirstIsReady DEF E!Deliver, EventInv
    <2>2. /\ held' = [held EXCEPT ![c] = E!Min(ready)] /\ ready' = ready \ {E!Min(ready)}
          /\ stream' = stream /\ assets' = assets /\ tokenQueue' = tokenQueue
          /\ \E await \in {"ack", "throw", "find"} : pc' = [pc EXCEPT ![c] = await]
        BY <1>1 DEF E!Deliver, E!Goto
    <2>3. EventInv'
        BY <1>0, <2>1, <2>2 DEF EventInv, WithRow, HasRow
    <2> QED
        BY <1>0, <2>2, <2>3, SameRows DEF SharedInv, HasRow
<1>2. CASE E!Nack(c) \/ E!Ack(c) \/ E!Interrupt(c)
    <2>1. /\ pc[c] # "idle" /\ E!Release(c) /\ stream' = stream /\ ready' \subseteq ready \cup {held[c]}
          /\ assets' = assets /\ tokenQueue' = tokenQueue
        BY <1>2 DEF E!Nack, E!Ack, E!Interrupt, E!Requeue
    <2> QED
        BY <1>0, <2>1, EventRelease, SameRows DEF SharedInv, HasRow
<1>3. CASE E!FindAsset(c) \/ E!RefindAsset(c)
    <2>1. /\ pc[c] # "idle" /\ UNCHANGED <<stream, ready, held>>
          /\ assets' = assets /\ tokenQueue' = tokenQueue
        BY <1>3 DEF E!FindAsset, E!RefindAsset
    <2>2. stream[held[c]].asset \in Assets
        BY <1>0, <2>1, HeldTransfer
    <2>3. \E await : E!Goto(c, await) /\ (await \in WithRow => HasRow(stream[held[c]].asset))
        BY <1>0, <1>3, <2>2 DEF EventInv, E!FindAsset, E!RefindAsset, E!AfterRow, E!AssetOf, E!EventOf,
                                WithRow, HasRow
    <2>4. RowsGrow
        BY <1>0, <2>1, SameRows
    <2> QED
        BY <1>0, <2>1, <2>3, <2>4, EventGoto DEF SharedInv, HasRow
<1>4. CASE E!InsertAsset(c)
    <2> DEFINE a == stream[held[c]].asset
    <2>1. pc[c] # "idle" /\ a \in Assets /\ tokenQueue' = tokenQueue
        BY <1>0, <1>4, HeldTransfer DEF E!InsertAsset
    <2>2. CASE assets[a] = "none"
        <3>1. /\ assets' = [assets EXCEPT ![a] = "bare"] /\ E!Goto(c, "refind")
              /\ UNCHANGED <<stream, ready, held>>
            BY <1>4, <2>2 DEF E!InsertAsset, E!AssetOf, E!EventOf
        <3>2. RowsGrow /\ HasRow(a)'
            BY <1>0, <2>1, <2>2, <3>1 DEF SharedInv, RowsGrow, HasRow
        <3>3. EventInv'
            BY <1>0, <2>1, <3>1, <3>2, EventGoto
        <3> QED
            BY <1>0, <2>1, <3>2, <3>3, RowStays DEF SharedInv, RowsGrow
    <2>3. CASE assets[a] # "none"
        <3>1. /\ E!Release(c) /\ stream' = stream /\ ready' \subseteq ready \cup {held[c]}
              /\ assets' = assets
            BY <1>4, <2>3 DEF E!InsertAsset, E!Requeue, E!AssetOf, E!EventOf
        <3> QED
            BY <1>0, <2>1, <3>1, EventRelease, SameRows DEF SharedInv, HasRow
    <2> QED
        BY <2>2, <2>3
<1>5. CASE E!CacheGet(c) \/ E!CacheSet(c)
    <2>1. /\ pc[c] \in WithRow /\ pc[c] # "idle" /\ UNCHANGED <<stream, ready, held>>
          /\ assets' = assets /\ tokenQueue' = tokenQueue /\ \E await : E!Goto(c, await)
        BY <1>5 DEF E!CacheGet, E!CacheSet, WithRow
    <2>2. RowsGrow /\ HasRow(stream[held[c]].asset)
        BY <1>0, <2>1, SameRows DEF EventInv
    <2>3. EventInv'
        BY <1>0, <2>1, <2>2, EventGoto, RowStays
    <2> QED
        BY <1>0, <2>1, <2>2, <2>3 DEF SharedInv, HasRow
<1>6. CASE E!PublishToken(c)
    <2>1. /\ pc[c] \in WithRow /\ pc[c] # "idle" /\ UNCHANGED <<stream, ready, held>>
          /\ assets' = assets /\ tokenQueue' = tokenQueue \cup {stream[held[c]].asset}
          /\ E!Goto(c, "save")
        BY <1>6 DEF E!PublishToken, E!AssetOf, E!EventOf, WithRow
    <2>2. RowsGrow /\ HasRow(stream[held[c]].asset)
        BY <1>0, <2>1, SameRows DEF EventInv
    <2>3. EventInv'
        BY <1>0, <2>1, <2>2, EventGoto, RowStays
    <2> QED
        BY <1>0, <2>1, <2>2, <2>3 DEF SharedInv, HasRow
<1>7. CASE E!Save(c) \/ E!SaveUnique(c)
    <2>1. /\ pc[c] # "idle" /\ UNCHANGED <<stream, ready, held>>
          /\ assets' = assets /\ tokenQueue' = tokenQueue
          /\ E!Goto(c, "ack") \/ E!Goto(c, "saveUnique")
        BY <1>7 DEF E!Save, E!SaveUnique
    <2>2. RowsGrow
        BY <1>0, <2>1, SameRows
    <2>3. EventInv'
        BY <1>0, <2>1, <2>2, EventGoto DEF WithRow
    <2> QED
        BY <1>0, <2>1, <2>2, <2>3 DEF SharedInv, HasRow
<1> QED
    BY <1>1, <1>2, <1>3, <1>4, <1>5, <1>6, <1>7 DEF E!Step

\* What the crawler publishes waits in the queue of the events.
LEMMA PublishEventInv ==
    ASSUME Inv, NEW e \in Transfers, E!Publish(e)
    PROVE  RowsGrow /\ SharedInv' /\ EventInv'
<1>0. SharedInv /\ EventInv
    BY DEF Inv
<1>1. /\ stream' = Append(stream, e) /\ ready' = ready \cup {Len(stream')}
      /\ held' = held /\ pc' = pc /\ assets' = assets /\ tokenQueue' = tokenQueue
    BY DEF E!Publish, E!consumerVars
<1>2. /\ stream' \in Seq(Transfers) /\ Len(stream') = Len(stream) + 1 /\ Len(stream) \in Nat
      /\ \A n \in 1..Len(stream) : stream'[n] = stream[n]
    BY <1>0, <1>1 DEF EventInv
<1>3. EventInv'
    <2>0. 1..Len(stream) \subseteq 1..Len(stream') /\ Len(stream') \in 1..Len(stream')
        BY <1>2
    <2>1. ready' \subseteq 1..Len(stream')
        BY <1>0, <1>1, <2>0 DEF EventInv
    <2>2. ASSUME NEW c \in Consumers, pc[c] # "idle"
          PROVE  /\ held[c] \in 1..Len(stream')
                 /\ pc[c] \in WithRow => HasRow(stream[held[c]].asset)'
        <3>1. held[c] \in 1..Len(stream) /\ stream'[held[c]] = stream[held[c]]
            BY <1>0, <1>2, <2>2, HeldTransfer
        <3>2. pc[c] \in WithRow => HasRow(stream[held[c]].asset)
            BY <1>0, <2>2 DEF EventInv
        <3>3. HasRow(stream[held[c]].asset) => HasRow(stream[held[c]].asset)'
            BY <1>1, <3>1 DEF HasRow
        <3> QED
            BY <2>0, <3>1, <3>2, <3>3
    <2> QED
        BY <1>0, <1>1, <1>2, <2>1, <2>2 DEF EventInv
<1> QED
    BY <1>0, <1>1, <1>3, SameRows DEF SharedInv, HasRow

-----------------------------------------------------------------------------
(* The token consumer. *)

\* A consumer that gives its request back or acknowledges it is idle.
LEMMA TokenRelease ==
    ASSUME TokenInv, NEW c \in TokenConsumers, T!Release(c), assets' = assets
    PROVE  TokenInv'
BY DEF TokenInv, T!Release, T!Goto, HasRow

\* One that goes on keeps its token, which has a row.
LEMMA TokenGoto ==
    ASSUME TokenInv, NEW c \in TokenConsumers, tokenPc[c] # "idle", NEW await, await # "idle",
           T!Goto(c, await), tokenHeld' = tokenHeld, RowsGrow
    PROVE  TokenInv'
<1>1. tokenPc' = [tokenPc EXCEPT ![c] = await]
    BY DEF T!Goto
<1>2. ASSUME NEW d \in TokenConsumers
      PROVE  IF tokenPc'[d] = "idle" THEN tokenHeld[d] = None ELSE HasRow(tokenHeld[d])'
    <2>1. CASE tokenPc[d] = "idle"
        BY <1>1, <2>1 DEF TokenInv
    <2>2. CASE tokenPc[d] # "idle"
        <3>1. HasRow(tokenHeld[d])'
            BY <2>2, RowStays DEF TokenInv
        <3> QED
            BY <1>1, <2>2, <3>1 DEF TokenInv
    <2> QED
        BY <2>1, <2>2
<1> QED
    BY <1>1, <1>2 DEF TokenInv

\* The token consumer describes rows and takes none away, and gives back only requests for
\* tokens with a row.
LEMMA TokenStepInv ==
    ASSUME Inv, NEW c \in TokenConsumers, T!Step(c) \/ T!Interrupt(c)
    PROVE  RowsGrow /\ SharedInv' /\ TokenInv'
<1>0. SharedInv /\ TokenInv
    BY DEF Inv
<1>1. CASE T!Deliver(c)
    <2>1. PICK a \in tokenQueue : /\ tokenHeld' = [tokenHeld EXCEPT ![c] = a]
                                  /\ tokenQueue' = tokenQueue \ {a}
        BY <1>1 DEF T!Deliver
    <2>2. assets' = assets /\ tokenPc' = [tokenPc EXCEPT ![c] = "find"]
        BY <1>1 DEF T!Deliver, T!Goto
    <2>3. HasRow(a)
        BY <1>0, <2>1 DEF SharedInv
    <2>4. TokenInv'
        BY <1>0, <2>1, <2>2, <2>3 DEF TokenInv, HasRow
    <2> QED
        BY <1>0, <2>1, <2>2, <2>4, SameRows DEF SharedInv, HasRow
<1>2. ASSUME tokenPc[c] # "idle", T!Release(c), assets' = assets,
             tokenQueue' \subseteq tokenQueue \cup {tokenHeld[c]}
      PROVE  RowsGrow /\ SharedInv' /\ TokenInv'
    <2>1. HasRow(tokenHeld[c])
        BY <1>0, <1>2 DEF TokenInv
    <2>2. SharedInv'
        BY <1>0, <1>2, <2>1 DEF SharedInv, HasRow
    <2> QED
        BY <1>0, <1>2, <2>2, TokenRelease, SameRows
<1>3. ASSUME tokenPc[c] # "idle", NEW await, await # "idle", T!Goto(c, await),
             UNCHANGED <<tokenHeld, tokenQueue>>, assets' = assets
      PROVE  RowsGrow /\ SharedInv' /\ TokenInv'
    <2>1. RowsGrow
        BY <1>0, <1>3, SameRows
    <2>2. TokenInv'
        BY <1>0, <1>3, <2>1, TokenGoto
    <2> QED
        BY <1>0, <1>3, <2>1, <2>2 DEF SharedInv, HasRow
<1>4. CASE T!Ack(c) \/ T!Interrupt(c)
    BY <1>2, <1>4 DEF T!Ack, T!Interrupt, T!Requeue
<1>5. CASE T!FindAsset(c)
    <2>1. assets' = assets /\ tokenPc[c] # "idle"
        BY <1>5 DEF T!FindAsset
    <2>2. \/ T!Release(c) /\ tokenQueue' \subseteq tokenQueue \cup {tokenHeld[c]}
          \/ (T!Goto(c, "fetch") \/ T!Goto(c, "ack")) /\ UNCHANGED <<tokenHeld, tokenQueue>>
        <3>1. assets[tokenHeld[c]] \in {"none", "bare", "described"}
            BY <1>0, <2>1 DEF TokenInv, SharedInv, HasRow
        <3> QED
            BY <1>5, <3>1 DEF T!FindAsset, T!Requeue
    <2> QED
        BY <1>2, <1>3, <2>1, <2>2
<1>6. CASE T!FetchInfo(c)
    <2>1. assets' = assets /\ tokenPc[c] # "idle"
        BY <1>6 DEF T!FetchInfo
    <2>2. \/ T!Release(c) /\ tokenQueue' \subseteq tokenQueue \cup {tokenHeld[c]}
          \/ T!Goto(c, "save") /\ UNCHANGED <<tokenHeld, tokenQueue>>
        BY <1>6 DEF T!FetchInfo, T!Requeue
    <2> QED
        BY <1>2, <1>3, <2>1, <2>2
<1>7. CASE T!SaveAsset(c)
    <2>1. /\ tokenPc[c] # "idle" /\ T!Goto(c, "ack") /\ UNCHANGED <<tokenHeld, tokenQueue>>
          /\ assets' = [assets EXCEPT ![tokenHeld[c]] = "described"]
        BY <1>7 DEF T!SaveAsset
    <2>2. RowsGrow
        BY <1>0, <2>1 DEF SharedInv, RowsGrow
    <2>3. TokenInv'
        BY <1>0, <2>1, <2>2, TokenGoto
    <2> QED
        BY <1>0, <2>1, <2>2, <2>3, RowStays DEF SharedInv, RowsGrow
<1> QED
    BY <1>1, <1>4, <1>5, <1>6, <1>7 DEF T!Step

-----------------------------------------------------------------------------
(* The transactions consumer. *)

\* The transaction of the message at hand.
LEMMA HeldTx ==
    ASSUME TxInv, NEW c \in TxConsumers, txPc[c] # "idle"
    PROVE  txHeld[c] \in 1..Len(txStream) /\ txStream[txHeld[c]] \in Txs
           /\ Tokens[txStream[txHeld[c]]] \in SUBSET Assets
<1>1. txHeld[c] \in 1..Len(txStream) /\ txStream \in Seq(Txs)
    BY DEF TxInv, TxConsumerInv
<1>2. txStream[txHeld[c]] \in Txs
    BY <1>1
<1> QED
    BY <1>1, <1>2, TxsAssumption

\* A consumer that gives its message back, or has settled it, is idle.
LEMMA TxRelease ==
    ASSUME TxInv, NEW c \in TxConsumers, txPc[c] # "idle", X!Release(c),
           UNCHANGED <<txStream, transactions, dropped, assets>>,
           txReady' \subseteq txReady \cup {txHeld[c]}, txAcked' \subseteq txAcked \cup {txHeld[c]},
           txAcked' = txAcked \/ transactions[txStream[txHeld[c]]] # None \/ txStream[txHeld[c]] \in dropped
    PROVE  TxInv'
<1>1. txHeld[c] \in 1..Len(txStream)
    BY HeldTx
<1>2. ASSUME NEW d \in TxConsumers
      PROVE  TxConsumerInv(d)'
    <2>1. CASE d = c
        BY <2>1 DEF TxInv, TxConsumerInv, X!Release, X!Goto
    <2>2. CASE d # c
        BY <2>2 DEF TxInv, TxConsumerInv, X!Release, X!Goto, HasRow
    <2> QED
        BY <2>1, <2>2
<1>3. /\ txStream' \in Seq(Txs) /\ txReady' \subseteq 1..Len(txStream') /\ txAcked' \subseteq 1..Len(txStream')
      /\ txHeld' \in [TxConsumers -> Nat] /\ DOMAIN txPc' = TxConsumers
      /\ DOMAIN found' = TxConsumers /\ DOMAIN wanted' = TxConsumers
      /\ transactions' \in [Txs -> (SUBSET Assets) \cup {None}]
    BY <1>1 DEF TxInv, X!Release, X!Goto
<1>4. \A n \in txAcked' : transactions[txStream[n]] # None \/ txStream[n] \in dropped
    BY DEF TxInv
<1> QED
    BY <1>2, <1>3, <1>4 DEF TxInv

\* One that goes on, and stores no row, knows what its next await needs.
LEMMA TxGoto ==
    ASSUME TxInv, NEW c \in TxConsumers, txPc[c] # "idle", X!Goto(c, txPc'[c]),
           UNCHANGED <<txStream, txReady, txAcked, txHeld, transactions, assets>>, dropped \subseteq dropped',
           \A d \in TxConsumers \ {c} : found'[d] = found[d] /\ wanted'[d] = wanted[d],
           DOMAIN found' = TxConsumers, DOMAIN wanted' = TxConsumers,
           TxConsumerInv(c)'
    PROVE  TxInv'
<1>1. ASSUME NEW d \in TxConsumers
      PROVE  TxConsumerInv(d)'
    <2>1. CASE d = c
        BY <2>1
    <2>2. CASE d # c
        BY <2>2 DEF TxInv, TxConsumerInv, X!Goto, HasRow
    <2> QED
        BY <2>1, <2>2
<1> QED
    BY <1>1 DEF TxInv, X!Goto

\* A transactions consumer stores only what it has found described, settles a message before it
\* acknowledges it, and asks only for descriptions of tokens with a row.
LEMMA TxStepInv ==
    ASSUME Inv, NEW c \in TxConsumers, X!Step(c) \/ X!Interrupt(c)
    PROVE  RowsGrow /\ SharedInv' /\ TxInv'
<1> USE DEF X!txQueueVars
<1> DEFINE t == txStream[txHeld[c]]
<1>0. SharedInv /\ TxInv
    BY DEF Inv
<1>a. assets' = assets
    BY DEF X!Step, X!Interrupt, X!Deliver, X!ReadReceipt, X!ReadAssets, X!RequestToken, X!Store, X!Ack
<1>b. RowsGrow
    BY <1>0, <1>a, SameRows
<1>1. CASE X!Deliver(c)
    <2>1. X!Min(txReady) \in txReady /\ X!Min(txReady) \in 1..Len(txStream)
        <3>1. txReady # {} /\ txReady \subseteq 1..Len(txStream)
            BY <1>0, <1>1 DEF X!Deliver, TxInv
        <3>2. txReady \in SUBSET Nat
            BY <3>1
        <3> QED
            BY <3>1, <3>2, FirstIsReady
    <2>2. /\ txHeld' = [txHeld EXCEPT ![c] = X!Min(txReady)] /\ txReady' = txReady \ {X!Min(txReady)}
          /\ txPc' = [txPc EXCEPT ![c] = "receipt"]
          /\ UNCHANGED <<txStream, txAcked, found, wanted, transactions, dropped, tokenQueue>>
        BY <1>1 DEF X!Deliver, X!Goto
    <2>3. ASSUME NEW d \in TxConsumers
          PROVE  TxConsumerInv(d)'
        <3>1. CASE d = c
            BY <1>0, <2>1, <2>2, <3>1 DEF TxInv, TxConsumerInv
        <3>2. CASE d # c
            BY <1>0, <1>a, <2>2, <3>2 DEF TxInv, TxConsumerInv, HasRow
        <3> QED
            BY <3>1, <3>2
    <2>4. TxInv'
        <3>1. /\ txHeld' \in [TxConsumers -> Nat] /\ txReady' \subseteq 1..Len(txStream)
              /\ DOMAIN txPc' = TxConsumers
            <4>1. X!Min(txReady) \in Nat
                BY <2>1
            <4>2. txHeld \in [TxConsumers -> Nat] /\ DOMAIN txPc = TxConsumers
                  /\ txReady \subseteq 1..Len(txStream)
                BY <1>0 DEF TxInv
            <4> QED
                BY <2>2, <4>1, <4>2
        <3> QED
            BY <1>0, <1>a, <2>2, <2>3, <3>1 DEF TxInv
    <2> QED
        BY <1>0, <1>a, <1>b, <2>2, <2>4 DEF SharedInv, HasRow
<1>2. CASE X!Ack(c) \/ X!Interrupt(c) \/ X!RequestToken(c)
    <2>1. txPc[c] # "idle"
        BY <1>2 DEF X!Ack, X!Interrupt, X!RequestToken
    <2>2. /\ X!Release(c) /\ UNCHANGED <<txStream, transactions, dropped, assets>>
          /\ txReady' \subseteq txReady \cup {txHeld[c]} /\ txAcked' \subseteq txAcked \cup {txHeld[c]}
          /\ txAcked' = txAcked \/ txPc[c] = "ack"
        BY <1>2 DEF X!Ack, X!Interrupt, X!RequestToken, X!Requeue
    <2>3. txPc[c] = "ack" => transactions[t] # None \/ t \in dropped
        BY <1>0 DEF TxInv, TxConsumerInv
    <2>4. TxInv'
        BY <1>0, <2>1, <2>2, <2>3, TxRelease
    <2>5. SharedInv'
        <3>1. tokenQueue' = tokenQueue \/ (txPc[c] = "request" /\ tokenQueue' = tokenQueue \cup {wanted[c]})
            BY <1>2 DEF X!Ack, X!Interrupt, X!RequestToken
        <3>2. txPc[c] = "request" => HasRow(wanted[c])
            BY <1>0 DEF TxInv, TxConsumerInv
        <3> QED
            BY <1>0, <1>a, <3>1, <3>2 DEF SharedInv, HasRow
    <2> QED
        BY <1>b, <2>4, <2>5
<1>3. CASE X!ReadReceipt(c)
    <2>1. /\ txPc[c] # "idle" /\ UNCHANGED <<txStream, txReady, txAcked, txHeld, transactions, assets>>
          /\ found' = found /\ wanted' = wanted /\ tokenQueue' = tokenQueue
          /\ \/ txPc' = [txPc EXCEPT ![c] = "assets"] /\ dropped' = dropped
             \/ txPc' = [txPc EXCEPT ![c] = "ack"] /\ dropped' = dropped \cup {t}
        BY <1>3 DEF X!ReadReceipt, X!Goto, X!TxOf
    <2>2. X!Goto(c, txPc'[c]) /\ TxConsumerInv(c)' /\ dropped \subseteq dropped'
        BY <1>0, <2>1 DEF TxInv, TxConsumerInv, X!Goto
    <2>3. TxInv'
        BY <1>0, <2>1, <2>2, TxGoto DEF TxInv
    <2> QED
        BY <1>0, <1>a, <1>b, <2>1, <2>3 DEF SharedInv, HasRow
<1>4. CASE X!ReadAssets(c)
    <2>1. /\ txPc[c] # "idle" /\ UNCHANGED <<txStream, txReady, txAcked, txHeld, transactions, assets>>
          /\ dropped' = dropped /\ tokenQueue' = tokenQueue
          /\ \/ /\ X!Bare(c) = {} /\ found' = [found EXCEPT ![c] = X!Rows(c)] /\ wanted' = wanted
                /\ txPc' = [txPc EXCEPT ![c] = "store"]
             \/ /\ \E a \in X!Bare(c) : wanted' = [wanted EXCEPT ![c] = a]
                /\ found' = found /\ txPc' = [txPc EXCEPT ![c] = "request"]
        BY <1>4 DEF X!ReadAssets, X!Goto
    <2>2. txHeld[c] \in 1..Len(txStream) /\ Tokens[t] \in SUBSET Assets
        BY <1>0, <2>1, HeldTx
    <2>3. /\ \A a \in X!Bare(c) : HasRow(a)
          /\ X!Bare(c) = {} => \A a \in X!Rows(c) : a \in Assets /\ assets[a] = "described"
          /\ X!Rows(c) \subseteq Tokens[t]
        BY <1>0, <2>2 DEF X!Bare, X!Rows, X!TxOf, SharedInv, HasRow
    <2>4. X!Goto(c, txPc'[c]) /\ TxConsumerInv(c)'
        <3>1. CASE txPc' = [txPc EXCEPT ![c] = "store"] /\ X!Bare(c) = {}
                   /\ found' = [found EXCEPT ![c] = X!Rows(c)]
            BY <1>0, <2>1, <2>2, <2>3, <3>1 DEF TxInv, TxConsumerInv, X!Goto
        <3>2. CASE txPc' = [txPc EXCEPT ![c] = "request"]
                   /\ \E a \in X!Bare(c) : wanted' = [wanted EXCEPT ![c] = a]
            BY <1>0, <2>1, <2>2, <2>3, <3>2 DEF TxInv, TxConsumerInv, X!Goto, HasRow
        <3> QED
            BY <2>1, <3>1, <3>2
    <2>5. /\ \A d \in TxConsumers \ {c} : found'[d] = found[d] /\ wanted'[d] = wanted[d]
          /\ DOMAIN found' = TxConsumers /\ DOMAIN wanted' = TxConsumers
        BY <1>0, <2>1 DEF TxInv
    <2>6. TxInv'
        BY <1>0, <2>1, <2>4, <2>5, TxGoto
    <2> QED
        BY <1>0, <1>a, <1>b, <2>1, <2>6 DEF SharedInv, HasRow
<1>5. CASE X!Store(c)
    <2>1. /\ txPc[c] = "store" /\ txPc' = [txPc EXCEPT ![c] = "ack"]
          /\ transactions' = [transactions EXCEPT ![t] = found[c]]
          /\ UNCHANGED <<txStream, txReady, txAcked, txHeld, found, wanted, dropped, tokenQueue>>
        BY <1>5 DEF X!Store, X!Goto, X!TxOf
    <2>2. /\ txHeld[c] \in 1..Len(txStream) /\ t \in Txs
          /\ found[c] \subseteq Tokens[t] /\ found[c] \in SUBSET Assets
          /\ \A a \in found[c] : assets[a] = "described"
        BY <1>0, <2>1, HeldTx DEF TxInv, TxConsumerInv
    <2>3. found[c] # None
        BY <2>2, TxsAssumption
    <2>4. /\ transactions' \in [Txs -> (SUBSET Assets) \cup {None}]
          /\ \A s \in Txs : transactions'[s] = IF s = t THEN found[c] ELSE transactions[s]
        BY <1>0, <2>1, <2>2 DEF TxInv
    <2> HIDE DEF t
    <2>5. \A s \in Txs : transactions[s] # None => transactions'[s] # None
        BY <2>3, <2>4
    <2>6. ASSUME NEW s \in Txs, transactions'[s] # None, NEW a \in transactions'[s]
          PROVE  a \in Tokens[s] /\ assets[a] = "described"
        BY <1>0, <2>2, <2>4, <2>6 DEF TxInv
    <2>7. ASSUME NEW n \in txAcked
          PROVE  transactions'[txStream[n]] # None \/ txStream[n] \in dropped
        <3>1. txStream[n] \in Txs
            BY <1>0 DEF TxInv
        <3> QED
            BY <1>0, <2>5, <3>1 DEF TxInv
    <2>8. ASSUME NEW d \in TxConsumers
          PROVE  TxConsumerInv(d)'
        <3>1. CASE d = c
            <4>1. txPc'[c] = "ack" /\ transactions'[t] # None
                BY <1>0, <2>1, <2>2, <2>3, <2>4 DEF TxInv
            <4> QED
                BY <2>1, <2>2, <3>1, <4>1 DEF TxConsumerInv, t
        <3>2. CASE d # c
            <4>1. txPc'[d] = txPc[d] /\ TxConsumerInv(d)
                BY <1>0, <2>1, <3>2 DEF TxInv
            <4>2. CASE txPc[d] = "idle"
                BY <4>1, <4>2 DEF TxConsumerInv
            <4>3. CASE txPc[d] # "idle"
                <5>1. txStream[txHeld[d]] \in Txs
                    BY <1>0, <4>3, HeldTx
                <5> QED
                    BY <1>a, <2>1, <2>5, <4>1, <4>3, <5>1 DEF TxConsumerInv, HasRow
            <4> QED
                BY <4>2, <4>3
        <3> QED
            BY <3>1, <3>2
    <2>9. TxInv'
        BY <1>0, <1>a, <2>1, <2>4, <2>6, <2>7, <2>8 DEF TxInv
    <2> QED
        BY <1>0, <1>a, <1>b, <2>1, <2>9 DEF SharedInv, HasRow
<1> QED
    BY <1>1, <1>2, <1>3, <1>4, <1>5 DEF X!Step

\* What the crawler publishes waits in the queue of the transactions.
LEMMA PublishTxInv ==
    ASSUME Inv, NEW t \in Txs, X!Publish(t)
    PROVE  RowsGrow /\ SharedInv' /\ TxInv'
<1>0. SharedInv /\ TxInv
    BY DEF Inv
<1>1. /\ txStream' = Append(txStream, t) /\ txReady' = txReady \cup {Len(txStream')}
      /\ UNCHANGED <<assets, tokenQueue, txAcked, txHeld, txPc, found, wanted, transactions, dropped>>
    BY DEF X!Publish
<1>2. /\ txStream' \in Seq(Txs) /\ Len(txStream') = Len(txStream) + 1 /\ Len(txStream) \in Nat
      /\ \A n \in 1..Len(txStream) : n \in 1..Len(txStream') /\ txStream'[n] = txStream[n]
    BY <1>0, <1>1 DEF TxInv
<1>3. /\ txReady' \subseteq 1..Len(txStream') /\ txAcked' \subseteq 1..Len(txStream')
      /\ \A n \in txAcked : transactions[txStream'[n]] # None \/ txStream'[n] \in dropped
    <2>1. 1..Len(txStream) \subseteq 1..Len(txStream') /\ Len(txStream') \in 1..Len(txStream')
        BY <1>2
    <2>2. txReady' \subseteq 1..Len(txStream') /\ txAcked' \subseteq 1..Len(txStream')
        BY <1>0, <1>1, <2>1 DEF TxInv
    <2>3. \A n \in txAcked : transactions[txStream'[n]] # None \/ txStream'[n] \in dropped
        BY <1>0, <1>2 DEF TxInv
    <2> QED
        BY <2>2, <2>3
<1>4. ASSUME NEW c \in TxConsumers
      PROVE  TxConsumerInv(c)'
    <2>1. CASE txPc[c] = "idle"
        BY <1>1, <2>1 DEF TxConsumerInv
    <2>2. CASE txPc[c] # "idle"
        <3>1. txHeld[c] \in 1..Len(txStream') /\ txStream'[txHeld[c]] = txStream[txHeld[c]]
            BY <1>0, <1>2, <2>2, HeldTx
        <3> QED
            BY <1>0, <1>1, <2>2, <3>1 DEF TxInv, TxConsumerInv, HasRow
    <2> QED
        BY <2>1, <2>2
<1>5. TxInv'
    BY <1>0, <1>1, <1>2, <1>3, <1>4 DEF TxInv
<1> QED
    BY <1>0, <1>1, <1>5, SameRows DEF SharedInv, HasRow

-----------------------------------------------------------------------------
(* The pipeline. *)

\* Nothing is published, requested or stored at first.
LEMMA InitInv == Init => Inv
<1> SUFFICES ASSUME Init PROVE Inv
    OBVIOUS
<1>1. SharedInv
    BY DEF Init, E!Init, SharedInv
<1>2. EventInv
    BY DEF Init, E!Init, EventInv
<1>3. TokenInv
    BY DEF Init, T!TokenInit, TokenInv
<1>4. TxInv
    <2>1. /\ txStream = <<>> /\ txStream \in Seq(Txs) /\ txReady = {} /\ txAcked = {}
          /\ txHeld \in [TxConsumers -> Nat] /\ DOMAIN txPc = TxConsumers
          /\ DOMAIN found = TxConsumers /\ DOMAIN wanted = TxConsumers
          /\ \A c \in TxConsumers : txPc[c] = "idle"
        BY DEF Init, X!TxInit
    <2>2. transactions = [t \in Txs |-> None]
        BY DEF Init, X!TxInit
    <2>3. transactions \in [Txs -> (SUBSET Assets) \cup {None}] /\ \A t \in Txs : transactions[t] = None
        BY <2>2
    <2> QED
        BY <2>1, <2>3 DEF TxInv, TxConsumerInv
<1> QED
    BY <1>1, <1>2, <1>3, <1>4 DEF Inv

\* Every step keeps the invariant of the part that takes it, and lets the rows grow, which is
\* all that the other parts need.
LEMMA NextInv == Inv /\ [Next]_vars => Inv' /\ RowsGrow
<1> SUFFICES ASSUME Inv, [Next]_vars PROVE Inv' /\ RowsGrow
    OBVIOUS
<1>0. SharedInv /\ EventInv /\ TokenInv /\ TxInv
    BY DEF Inv
<1>1. ASSUME RowsGrow, SharedInv', EventInv', UNCHANGED <<tokenOwn, txOwn>>
      PROVE  Inv' /\ RowsGrow
    BY <1>0, <1>1, TokenFrame, TxFrame DEF Inv
<1>2. ASSUME RowsGrow, SharedInv', TokenInv', UNCHANGED <<eventOwn, txOwn>>
      PROVE  Inv' /\ RowsGrow
    BY <1>0, <1>2, EventFrame, TxFrame DEF Inv
<1>3. ASSUME RowsGrow, SharedInv', TxInv', UNCHANGED <<eventOwn, tokenOwn>>
      PROVE  Inv' /\ RowsGrow
    BY <1>0, <1>3, EventFrame, TokenFrame DEF Inv
<1>4. CASE Publish
    <2>1. CASE \E t \in Txs : \E e \in TransfersOf(t) : E!Publish(e) /\ UNCHANGED <<tokenOwn, txOwn>>
        <3>1. PICK e \in Transfers : E!Publish(e) /\ UNCHANGED <<tokenOwn, txOwn>>
            BY <2>1 DEF Transfers
        <3> QED
            BY <1>1, <3>1, PublishEventInv
    <2>2. CASE \E t \in Txs : X!Publish(t) /\ UNCHANGED <<eventOwn, tokenOwn>>
        BY <1>3, <2>2, PublishTxInv
    <2> QED
        BY <1>4, <2>1, <2>2 DEF Publish
<1>5. CASE \E c \in Consumers : EventStep(c) \/ (E!Interrupt(c) /\ UNCHANGED <<tokenOwn, txOwn>>)
    BY <1>1, <1>5, EventStepInv DEF EventStep
<1>6. CASE \E c \in TokenConsumers : TokenStep(c) \/ (T!Interrupt(c) /\ UNCHANGED <<eventOwn, txOwn>>)
    BY <1>2, <1>6, TokenStepInv DEF TokenStep
<1>7. CASE \E c \in TxConsumers : TxStep(c) \/ (X!Interrupt(c) /\ UNCHANGED <<eventOwn, tokenOwn>>)
    BY <1>3, <1>7, TxStepInv DEF TxStep
<1>8. CASE Expire
    <2>1. /\ UNCHANGED <<stream, ready, acked, held, pc, assets, tokenQueue>>
          /\ UNCHANGED <<tokenOwn, txOwn>>
        BY <1>8 DEF Expire, E!Expire, E!queueVars, E!consumerVars
    <2>2. RowsGrow /\ SharedInv' /\ EventInv'
        BY <1>0, <2>1, SameRows DEF SharedInv, EventInv, HasRow
    <2> QED
        BY <1>1, <2>1, <2>2
<1>9. CASE UNCHANGED vars
    <2>1. UNCHANGED <<eventOwn, tokenOwn, txOwn>> /\ assets' = assets /\ tokenQueue' = tokenQueue
        BY <1>9 DEF vars
    <2>2. RowsGrow /\ SharedInv'
        BY <1>0, <2>1, SameRows DEF SharedInv, HasRow
    <2> QED
        BY <1>0, <1>1, <2>1, <2>2, EventFrame
<1> QED
    BY <1>4, <1>5, <1>6, <1>7, <1>8, <1>9 DEF Next, Interrupt

-----------------------------------------------------------------------------
(* Results. *)

\* The token consumer never meets a request for a token without a row, on which it would throw
\* for ever, with any number of consumers on every queue.
THEOREM TokenRequestsHaveRows == Spec => []RequestsHaveRows
<1>1. Inv => RequestsHaveRows
    BY DEF Inv, SharedInv, TokenInv, RequestsHaveRows, HasRow
<1> QED
    BY <1>1, InitInv, NextInv, PTL DEF Spec

\* A transaction is acknowledged only when it is stored, from described tokens, or the node had
\* no receipt (migrateTransactions).
THEOREM AcknowledgedIsStored == Spec => []AckedIsStored
<1>1. Inv => AckedIsStored
    BY DEF Inv, TxInv, AckedIsStored
<1> QED
    BY <1>1, InitInv, NextInv, PTL DEF Spec

\* A step leaves the table of transactions alone, or is the upsert of a consumer.
LEMMA OnlyStoreWrites ==
    ASSUME Next, transactions' # transactions
    PROVE  \E c \in TxConsumers : X!Store(c)
<1>1. CASE UNCHANGED txOwn
    BY <1>1 DEF txOwn
<1>2. CASE \E t \in Txs : X!Publish(t)
    BY <1>2 DEF X!Publish
<1>3. CASE \E c \in TxConsumers : X!Step(c) \/ X!Interrupt(c)
    BY <1>3 DEF X!Step, X!Interrupt, X!Deliver, X!ReadReceipt, X!ReadAssets, X!RequestToken, X!Ack
<1> QED
    BY <1>1, <1>2, <1>3 DEF Next, Publish, Interrupt, Expire, EventStep, TokenStep, TxStep

\* What the only consumer of the transactions reads covers what is stored, because rows stay, and
\* nobody else stores before it does.
LEMMA CoversStep ==
    ASSUME \A c, d \in TxConsumers : c = d
    PROVE  Inv /\ CoversInv /\ [Next]_vars => CoversInv'
<1> SUFFICES ASSUME Inv, CoversInv, [Next]_vars, NEW c \in TxConsumers, txPc'[c] = "store"
             PROVE  LET t == txStream'[txHeld'[c]]
                    IN  transactions'[t] # None => transactions'[t] \subseteq found'[c]
    BY DEF CoversInv
<1>0. SharedInv /\ TxInv
    BY DEF Inv
<1>1. CASE UNCHANGED txOwn
    BY <1>1 DEF txOwn, CoversInv
<1>2. CASE \E s \in Txs : X!Publish(s)
    <2>1. PICK s \in Txs : X!Publish(s)
        BY <1>2
    <2>2. /\ txStream' = Append(txStream, s)
          /\ UNCHANGED <<txHeld, txPc, found, transactions>>
        BY <2>1 DEF X!Publish
    <2>3. txHeld[c] \in 1..Len(txStream) /\ txStream \in Seq(Txs)
        BY <1>0, <2>2, HeldTx DEF TxInv
    <2>4. txStream'[txHeld[c]] = txStream[txHeld[c]]
        BY <2>2, <2>3
    <2> QED
        BY <2>2, <2>4 DEF CoversInv
<1>3. CASE X!ReadAssets(c)
    <2> DEFINE t == txStream[txHeld[c]]
    <2>1. /\ txPc[c] # "idle" /\ found' = [found EXCEPT ![c] = X!Rows(c)]
          /\ UNCHANGED <<txStream, txHeld, transactions>>
        BY <1>0, <1>3 DEF X!ReadAssets, X!Goto, X!txQueueVars, TxInv
    <2>2. t \in Txs
        BY <1>0, <2>1, HeldTx
    <2>3. transactions[t] # None => transactions[t] \subseteq X!Rows(c)
        BY <1>0, <2>2 DEF TxInv, X!Rows, X!TxOf
    <2> QED
        BY <1>0, <2>1, <2>3 DEF TxInv
<1>4. CASE \/ X!Deliver(c) \/ X!ReadReceipt(c) \/ X!RequestToken(c) \/ X!Store(c) \/ X!Ack(c)
           \/ X!Interrupt(c)
    BY <1>0, <1>4 DEF X!Deliver, X!ReadReceipt, X!RequestToken, X!Store, X!Ack, X!Interrupt, X!Requeue,
                      X!Release, X!Goto, TxInv
<1>5. CASE \E d \in TxConsumers : X!Step(d) \/ X!Interrupt(d)
    <2>1. X!Step(c) \/ X!Interrupt(c)
        BY <1>5
    <2> QED
        BY <1>3, <1>4, <2>1 DEF X!Step
<1>6. CASE UNCHANGED vars
    BY <1>1, <1>6 DEF vars
<1> QED
    BY <1>1, <1>2, <1>5, <1>6 DEF Next, Publish, Interrupt, Expire, EventStep, TokenStep, TxStep

\* With one transactions consumer, and any number of the others, storing a transaction again never
\* loses a sub-transaction (the upsert of getInsertSql).
THEOREM SubTransactionsStay ==
    ASSUME \A c, d \in TxConsumers : c = d
    PROVE  Spec => SubTransactionsOnlyGrow
<1> DEFINE Grow == \A t \in Txs : transactions[t] # None =>
                       transactions'[t] # None /\ transactions[t] \subseteq transactions'[t]
<1>1. Init => CoversInv
    BY DEF Init, X!TxInit, CoversInv
<1>2. Inv /\ CoversInv /\ [Next]_vars => CoversInv'
    BY CoversStep
<1>3. Inv /\ CoversInv /\ [Next]_vars => [Grow]_vars
    <2> SUFFICES ASSUME Inv, CoversInv, Next PROVE Grow
        OBVIOUS
    <2>1. CASE transactions' = transactions
        BY <2>1
    <2>2. CASE transactions' # transactions
        <3>1. PICK c \in TxConsumers : X!Store(c)
            BY <2>2, OnlyStoreWrites
        <3> DEFINE s == txStream[txHeld[c]]
        <3>2. txPc[c] = "store" /\ transactions' = [transactions EXCEPT ![s] = found[c]]
            BY <3>1 DEF X!Store, X!TxOf
        <3>3. /\ s \in Txs /\ found[c] \in SUBSET Assets /\ transactions \in [Txs -> (SUBSET Assets) \cup {None}]
              /\ transactions[s] # None => transactions[s] \subseteq found[c]
            BY <3>2, HeldTx DEF Inv, TxInv, TxConsumerInv, CoversInv
        <3>4. found[c] # None
            BY <3>3, TxsAssumption
        <3> HIDE DEF s
        <3> QED
            BY <3>2, <3>3, <3>4
    <2> QED
        BY <2>1, <2>2
<1> QED
    BY <1>1, <1>2, <1>3, InitInv, NextInv, PTL DEF Spec, SubTransactionsOnlyGrow

================================================================================
