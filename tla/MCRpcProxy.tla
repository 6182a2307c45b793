----------------------------- MODULE MCRpcProxy -----------------------------
(* The RPC proxy with two endpoints of one chain and one of another. *)
EXTENDS RpcProxy, TLC

CONSTANTS e1, e2, e3, c1, c2

MCChainOf == [e \in Endpoints |-> IF e = e3 THEN c2 ELSE c1]
MCRows == [e \in Endpoints |-> [isEnabled |-> TRUE, priority |-> IF e = e1 THEN 1 ELSE 0, archived |-> e = e1]]

MCTables == {MCRows, [MCRows EXCEPT ![e3] = Gone]}

\* Calls, their scores and the clock are explored on the first Map, with the table as it
\* was; changes of the table and later loads without calls: a call uses the Map in one
\* step, at its start.
Apart ==
    LET called == calls # [k \in Calls |-> NewCall] IN
    /\ called => changes = MaxChanges /\ rows = MCRows /\ loads = 1 /\ found = Undefined
    /\ ~called => now = 0
=============================================================================
