SPECIFICATION FairSpec
CONSTANTS
    a1 = a1
    a2 = a2
    Consumers = {e1}
    TokenConsumers = {k1}
    TxConsumers = {x1}
    Assets = {a1, a2}
    Preset = {}
    Describable = {a1, a2}
    Txs = {1}
    Tokens <- MCTokens
    None = None
    MaxStream = 2
    MaxTxStream = 2
    MaxInterrupts = 1
\* Once everything is published and handled nothing is left to do.
CHECK_DEADLOCK FALSE
INVARIANTS
    RequestsHaveRows
    AckedIsStored
PROPERTIES
    SubTransactionsOnlyGrow
    TransactionsAreSettled
