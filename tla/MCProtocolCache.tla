-------------------------- MODULE MCProtocolCache --------------------------
(* One protocol with two pools, read by clients, and by whoever syncs it with debug. *)
EXTENDS ProtocolCache

MCChainOf == [p \in Protocols |-> "chain"]
MCLists == [p \in Protocols |-> {{1, 2}, {2}}]
MCAsks == [client |-> {[kind |-> "read", chains |-> {}]},
           job |-> {[kind |-> "sync", chains |-> {}], [kind |-> "debug", chains |-> {"chain"}]}]
=============================================================================
