------------------------- MODULE TransactionsConsumer -------------------------
(***************************************************************************)
(* The consumers of the transaction queue                                  *)
(* (jobs/migration_transactions_consumer): each turns the transfers of one *)
(* transaction into sub-transactions, with the rows of their tokens, and   *)
(* stores them in transactions_new.                                        *)
(***************************************************************************)
EXTENDS Integers, Sequences, FiniteSetsExt

CONSTANTS
    TxConsumers,    \* processes on the transaction queue
    Assets,         \* token contracts
    Txs,            \* transactions, by number
    Tokens,         \* [Txs -> tokens of its transfers, those without data left out]
    None,           \* no row, no token
    MaxTxStream,    \* bound: messages published, repeated ones included
    MaxInterrupts   \* bound: deliveries that end with an error or a crash

VARIABLES
    assets,         \* table assets_new, see EventsConsumer.tla
    tokenQueue,     \* tokens with a waiting request for their description
    txStream,       \* messages published so far, in the order of the queue
    txReady,        \* positions of txStream that wait in the queue
    txAcked,        \* positions of txStream that were acknowledged
    txHeld,         \* [TxConsumers -> position it is working on, or 0]
    txPc,           \* [TxConsumers -> the await it is at]
    found,          \* [TxConsumers -> tokens it has sub-transactions for]
    wanted,         \* [TxConsumers -> token whose description it lacks, or None]
    transactions,   \* table transactions_new, [Txs -> tokens of its sub-transactions]
    dropped,        \* history: transactions acknowledged without a receipt
    interrupts      \* counter of the bound

txQueueVars == <<txStream, txReady, txAcked>>
txVars == <<txQueueVars, txHeld, txPc, found, wanted, transactions, dropped>>

TxOf(c) == txStream[txHeld[c]]

TxInit ==
    /\ txStream = <<>>
    /\ txReady = {}
    /\ txAcked = {}
    /\ txHeld = [c \in TxConsumers |-> 0]
    /\ txPc = [c \in TxConsumers |-> "idle"]
    /\ found = [c \in TxConsumers |-> {}]
    /\ wanted = [c \in TxConsumers |-> None]
    /\ transactions = [t \in Txs |-> None]
    /\ dropped = {}

\* The crawler publishes a transaction, for the first time or again.
Publish(t) ==
    /\ Len(txStream) < MaxTxStream
    /\ txStream' = Append(txStream, t)
    /\ txReady' = txReady \cup {Len(txStream')}
    /\ UNCHANGED <<assets, tokenQueue, txAcked, txHeld, txPc, found, wanted, transactions,
                   dropped, interrupts>>

Goto(c, await) == txPc' = [txPc EXCEPT ![c] = await]

Deliver(c) ==
    /\ txPc[c] = "idle"
    /\ txReady # {}
    /\ txHeld' = [txHeld EXCEPT ![c] = Min(txReady)]
    /\ txReady' = txReady \ {Min(txReady)}
    /\ Goto(c, "receipt")
    /\ UNCHANGED <<assets, tokenQueue, txStream, txAcked, found, wanted, transactions,
                   dropped, interrupts>>

Release(c) ==
    /\ txHeld' = [txHeld EXCEPT ![c] = 0]
    /\ found' = [found EXCEPT ![c] = {}]
    /\ wanted' = [wanted EXCEPT ![c] = None]
    /\ Goto(c, "idle")

\* nack, or the broker misses the consumer.
Requeue(c) ==
    /\ txReady' = txReady \cup {txHeld[c]}
    /\ Release(c)
    /\ UNCHANGED <<txStream, txAcked>>

Ack(c) ==
    /\ txPc[c] = "ack"
    /\ txAcked' = txAcked \cup {txHeld[c]}
    /\ Release(c)
    /\ UNCHANGED <<assets, tokenQueue, txStream, txReady, transactions, dropped, interrupts>>

\* The receipt and then the prices. A node that has no receipt ends the matter.
ReadReceipt(c) ==
    /\ txPc[c] = "receipt"
    /\ \/ /\ Goto(c, "assets")
          /\ UNCHANGED dropped
       \/ /\ Goto(c, "ack")
          /\ dropped' = dropped \cup {TxOf(c)}
    /\ UNCHANGED <<assets, tokenQueue, txQueueVars, txHeld, found, wanted, transactions,
                   interrupts>>

Rows(c) == {a \in Tokens[TxOf(c)] : assets[a] # "none"}
Bare(c) == {a \in Rows(c) : assets[a] = "bare"}

\* It goes on without the descriptions.
ReadAssetsAnyway(c) ==
    /\ txPc[c] = "assets"
    /\ found' = [found EXCEPT ![c] = Rows(c)]
    /\ Goto(c, "store")
    /\ UNCHANGED <<assets, tokenQueue, txQueueVars, txHeld, wanted, transactions, dropped,
                   interrupts>>

\* The first token without a description ends the loop, and what came before it is stored.
ReadAssetsUntilBare(c) ==
    /\ txPc[c] = "assets"
    /\ IF Bare(c) = {}
       THEN found' = [found EXCEPT ![c] = Rows(c)]
       ELSE \E before \in SUBSET (Rows(c) \ Bare(c)) : found' = [found EXCEPT ![c] = before]
    /\ Goto(c, "store")
    /\ UNCHANGED <<assets, tokenQueue, txQueueVars, txHeld, wanted, transactions, dropped,
                   interrupts>>

\* A transfer of a token without a row is skipped; the first one of a token without a
\* description stops the loop.
ReadAssets(c) ==
    /\ txPc[c] = "assets"
    /\ \/ /\ Bare(c) = {}
          /\ found' = [found EXCEPT ![c] = Rows(c)]
          /\ Goto(c, "store")
          /\ UNCHANGED wanted
       \/ /\ \E a \in Bare(c) : wanted' = [wanted EXCEPT ![c] = a]
          /\ Goto(c, "request")
          /\ UNCHANGED found
    /\ UNCHANGED <<assets, tokenQueue, txQueueVars, txHeld, transactions, dropped,
                   interrupts>>

\* It leaves the request to the events consumer.
ThrowWithoutRequest(c) ==
    /\ txPc[c] = "request"
    /\ Requeue(c)
    /\ UNCHANGED <<assets, tokenQueue, transactions, dropped, interrupts>>

\* It asks for the description, and throws.
RequestToken(c) ==
    /\ txPc[c] = "request"
    /\ tokenQueue' = tokenQueue \cup {wanted[c]}
    /\ Requeue(c)
    /\ UNCHANGED <<assets, transactions, dropped, interrupts>>

\* One upsert by hash and address.
Store(c) ==
    /\ txPc[c] = "store"
    /\ transactions' = [transactions EXCEPT ![TxOf(c)] = found[c]]
    /\ Goto(c, "ack")
    /\ UNCHANGED <<assets, tokenQueue, txQueueVars, txHeld, found, wanted, dropped,
                   interrupts>>

\* A call rejects, or the process dies, at any await; the replica set starts it again.
Interrupt(c) ==
    /\ txPc[c] # "idle"
    /\ interrupts < MaxInterrupts
    /\ interrupts' = interrupts + 1
    /\ Requeue(c)
    /\ UNCHANGED <<assets, tokenQueue, transactions, dropped>>

Step(c) ==
    \/ Deliver(c) \/ ReadReceipt(c) \/ ReadAssets(c) \/ RequestToken(c) \/ Store(c)
    \/ Ack(c)
=============================================================================
