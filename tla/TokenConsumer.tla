----------------------------- MODULE TokenConsumer -----------------------------
(***************************************************************************)
(* The consumers of the queue of new assets                                *)
(* (jobs/migration_token_consumer): each looks a token's row up, asks      *)
(* Covalent, the chain and Ethplorer in turn for its description, and      *)
(* stores the first answer. Requests for the same token are alike, and     *)
(* all but the first do nothing once one was answered, so the queue is the *)
(* set of tokens that are asked for.                                       *)
(***************************************************************************)
EXTENDS Integers

CONSTANTS
    TokenConsumers, \* processes on the queue of new assets
    Assets,         \* token contracts
    Describable,    \* those that one of the sources can describe
    None,           \* no token
    MaxInterrupts   \* bound: deliveries that end with an error or a crash

VARIABLES
    assets,         \* table assets_new, see EventsConsumer.tla
    tokenQueue,     \* tokens with a waiting request
    tokenHeld,      \* [TokenConsumers -> the token it is working on, or None]
    tokenPc,        \* [TokenConsumers -> the await it is at]
    interrupts      \* counter of the bound

tokenVars == <<tokenHeld, tokenPc>>

TokenInit ==
    /\ tokenHeld = [c \in TokenConsumers |-> None]
    /\ tokenPc = [c \in TokenConsumers |-> "idle"]

Goto(c, await) == tokenPc' = [tokenPc EXCEPT ![c] = await]

Deliver(c) ==
    /\ tokenPc[c] = "idle"
    /\ \E a \in tokenQueue :
         /\ tokenHeld' = [tokenHeld EXCEPT ![c] = a]
         /\ tokenQueue' = tokenQueue \ {a}
    /\ Goto(c, "find")
    /\ UNCHANGED <<assets, interrupts>>

Release(c) ==
    /\ tokenHeld' = [tokenHeld EXCEPT ![c] = None]
    /\ Goto(c, "idle")

\* nack, or the broker misses the consumer.
Requeue(c) ==
    /\ tokenQueue' = tokenQueue \cup {tokenHeld[c]}
    /\ Release(c)

Ack(c) ==
    /\ tokenPc[c] = "ack"
    /\ Release(c)
    /\ UNCHANGED <<assets, tokenQueue, interrupts>>

\* A token without a row makes the handler throw.
FindAsset(c) ==
    /\ tokenPc[c] = "find"
    /\ CASE assets[tokenHeld[c]] = "none"      -> Requeue(c)
         [] assets[tokenHeld[c]] = "bare"      -> /\ Goto(c, "fetch")
                                                  /\ UNCHANGED <<tokenQueue, tokenHeld>>
         [] assets[tokenHeld[c]] = "described" -> /\ Goto(c, "ack")
                                                  /\ UNCHANGED <<tokenQueue, tokenHeld>>
    /\ UNCHANGED <<assets, interrupts>>

\* getTokenInfo: it throws when no source has the token's data.
FetchInfo(c) ==
    /\ tokenPc[c] = "fetch"
    /\ IF tokenHeld[c] \in Describable
       THEN Goto(c, "save") /\ UNCHANGED <<tokenQueue, tokenHeld>>
       ELSE Requeue(c)
    /\ UNCHANGED <<assets, interrupts>>

SaveAsset(c) ==
    /\ tokenPc[c] = "save"
    /\ assets' = [assets EXCEPT ![tokenHeld[c]] = "described"]
    /\ Goto(c, "ack")
    /\ UNCHANGED <<tokenQueue, tokenHeld, interrupts>>

\* A call rejects, or the process dies, at any await; the replica set starts it again.
Interrupt(c) ==
    /\ tokenPc[c] # "idle"
    /\ interrupts < MaxInterrupts
    /\ interrupts' = interrupts + 1
    /\ Requeue(c)
    /\ UNCHANGED assets

Step(c) == Deliver(c) \/ FindAsset(c) \/ FetchInfo(c) \/ SaveAsset(c) \/ Ack(c)
=============================================================================
