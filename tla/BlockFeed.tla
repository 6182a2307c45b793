------------------------------ MODULE BlockFeed ------------------------------
(***************************************************************************)
(* What the chain crawler promises to the queue behind it, without pods,   *)
(* ticks, tables or nodes: every block is handed over at least once before *)
(* it is acknowledged, blocks are acknowledged in chain order, and an      *)
(* acknowledgement is never taken back.                                    *)
(***************************************************************************)
EXTENDS Integers

CONSTANT Blocks     \* the block numbers, from 0

VARIABLES
    delivered,      \* blocks handed over at least once
    acknowledged    \* every block up to this one is done with; -1 at first

feedVars == <<delivered, acknowledged>>

Init ==
    /\ delivered = {}
    /\ acknowledged = -1

\* Blocks may be handed over early, in any number, and again.
Deliver(bs) ==
    /\ delivered' = delivered \cup bs
    /\ UNCHANGED acknowledged

\* Acknowledging jumps over a run of blocks, all of them handed over.
Acknowledge(n) ==
    /\ n > acknowledged
    /\ (acknowledged + 1)..n \subseteq delivered
    /\ acknowledged' = n
    /\ UNCHANGED delivered

Next ==
    \/ \E bs \in SUBSET Blocks : Deliver(bs)
    \/ \E n \in Blocks : Acknowledge(n)

Spec == Init /\ [][Next]_feedVars
=============================================================================
