------------------------------- MODULE Migration -------------------------------
(***************************************************************************)
(* The migration pipeline behind the chain crawler: the events, token and  *)
(* transactions consumers over their three queues, the table assets_new    *)
(* they share, and the crawler, which publishes the events of a block      *)
(* before its transactions and repeats itself after a failure.             *)
(***************************************************************************)
EXTENDS Integers, Sequences

CONSTANTS
    Consumers, TokenConsumers, TxConsumers,     \* processes on the three queues
    Assets,         \* token contracts
    Preset,         \* those with a complete row from the start
    Describable,    \* those that some source can describe
    Txs,            \* transactions, by number
    Tokens,         \* [Txs -> tokens the transaction transfers]
    None,
    MaxStream, MaxTxStream,     \* bounds: messages published
    MaxInterrupts               \* bound: deliveries that end with an error or a crash

\* Only transactions with a transfer or a value lead to rows, and no row is not a row
\* without sub-transactions.
ASSUME TxsAssumption ==
    /\ Txs \subseteq Nat /\ Tokens \in [Txs -> (SUBSET Assets) \ {{}}]
    /\ \A S \in SUBSET Assets : None # S

VARIABLES
    stream, ready, acked, held, pc, cached, transfers, approvals, approvalsNew,
    tokenHeld, tokenPc,
    txStream, txReady, txAcked, txHeld, txPc, found, wanted, transactions, dropped,
    assets, tokenQueue, interrupts      \* shared

eventOwn == <<stream, ready, acked, held, pc, cached, transfers, approvals, approvalsNew>>
tokenOwn == <<tokenHeld, tokenPc>>
txOwn    == <<txStream, txReady, txAcked, txHeld, txPc, found, wanted, transactions, dropped>>
vars == <<eventOwn, tokenOwn, txOwn, assets, tokenQueue, interrupts>>

TransferOf(t, a) == [type |-> "transfer", asset |-> a, time |-> t]
TransfersOf(t) == {TransferOf(t, a) : a \in Tokens[t]}

E == INSTANCE EventsConsumer WITH Events <- UNION {TransfersOf(t) : t \in Txs}
T == INSTANCE TokenConsumer
X == INSTANCE TransactionsConsumer

Init == E!Init /\ T!TokenInit /\ X!TxInit

\* The crawler (Crawler.tla): a transaction's events are with the broker before the
\* transaction is, and either may be repeated.
Publish ==
    \/ \E t \in Txs : \E e \in TransfersOf(t) : E!Publish(e) /\ UNCHANGED <<tokenOwn, txOwn>>
    \/ \E t \in Txs : /\ \A e \in TransfersOf(t) : \E n \in 1..Len(stream) : stream[n] = e
                      /\ X!Publish(t)
                      /\ UNCHANGED <<eventOwn, tokenOwn>>

EventStep(c) == E!Step(c) /\ UNCHANGED <<tokenOwn, txOwn>>
TokenStep(c) == T!Step(c) /\ UNCHANGED <<eventOwn, txOwn>>
TxStep(c)    == X!Step(c) /\ UNCHANGED <<eventOwn, tokenOwn>>

Interrupt ==
    \/ \E c \in Consumers : E!Interrupt(c) /\ UNCHANGED <<tokenOwn, txOwn>>
    \/ \E c \in TokenConsumers : T!Interrupt(c) /\ UNCHANGED <<eventOwn, txOwn>>
    \/ \E c \in TxConsumers : X!Interrupt(c) /\ UNCHANGED <<eventOwn, tokenOwn>>

Expire == \E a \in Assets : E!Expire(a) /\ UNCHANGED <<tokenOwn, txOwn>>

Next ==
    \/ Publish \/ Interrupt \/ Expire
    \/ \E c \in Consumers : EventStep(c)
    \/ \E c \in TokenConsumers : TokenStep(c)
    \/ \E c \in TxConsumers : TxStep(c)

Spec == Init /\ [][Next]_vars

\* A consumer that runs keeps taking and handling messages, and one that died is started
\* again.
FairSpec ==
    /\ Spec
    /\ \A c \in Consumers : WF_vars(EventStep(c))
    /\ \A c \in TokenConsumers : WF_vars(TokenStep(c))
    /\ \A c \in TxConsumers : WF_vars(TxStep(c))

-----------------------------------------------------------------------------
(* Properties. *)

\* The shared table and queue stay what the three consumers take them for, in particular
\* no request is ever made for a token without a row, on which the token consumer would
\* throw for as long as it stays (EventsConsumer and TransactionsConsumer publish, the
\* token consumer reads isDataPresent of the row).
RequestsHaveRows ==
    \A a \in tokenQueue \cup ({tokenHeld[c] : c \in TokenConsumers} \ {None}) :
        assets[a] # "none"

\* Every sub-transaction was computed from a token with a description, and a transaction
\* is gone from its queue only when it is stored or the node had no receipt for it
\* (parseTransactions and the acknowledgement of migrateTransactions).
AckedIsStored ==
    /\ \A t \in Txs : transactions[t] # None =>
          \A a \in transactions[t] : assets[a] = "described"
    /\ \A n \in txAcked : transactions[txStream[n]] # None \/ txStream[n] \in dropped

\* With one transactions consumer, storing a transaction again never loses one of its
\* sub-transactions (the upsert of getInsertSql).
SubTransactionsOnlyGrow ==
    [][\A t \in Txs : transactions[t] # None =>
          transactions'[t] # None /\ transactions[t] \subseteq transactions'[t]]_vars

\* A transaction that waits for the description of a token asks for it itself, so that it
\* is stored in the end, also when the request of the events consumer was lost: every
\* transaction that is published is acknowledged (getSubTransactions).
TransactionsAreSettled ==
    \A n \in 1..MaxTxStream : n <= Len(txStream) ~> n \in txAcked

\* transactions.parsing.service.ts, lines 236-237, throw "there is no AssetsNewEntity
\* object!" rather than go on without the row of a transferred token: a transaction is not
\* stored without one of its transfers.
StoredTransactionsAreWhole ==
    \A t \in Txs : transactions[t] # None => transactions[t] = Tokens[t]
=============================================================================
