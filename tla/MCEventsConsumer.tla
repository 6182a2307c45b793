-------------------------- MODULE MCEventsConsumer --------------------------
(* Two consumers on a short stream that may repeat and reorder its events. *)
EXTENDS EventsConsumer, TLC

CONSTANTS a1, a2

\* A transfer of each token, two approvals of one, and an event that does not parse.
MCEvents ==
    {[type |-> "transfer", asset |-> a, time |-> 1] : a \in {a1, a2}}
    \cup {[type |-> "approval", asset |-> a1, time |-> t] : t \in {1, 2}}
    \cup {[type |-> t, asset |-> a2, time |-> 1] : t \in {"unparsable", "unknown"}}

ConsumerSymmetry == Permutations(Consumers)
=============================================================================
