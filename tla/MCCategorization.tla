-------------------------- MODULE MCCategorization --------------------------
(* The task queue with few protocols, two items at a time where the code runs several. *)
EXTENDS Categorization

\* Two protocols share a docs page, one of them has an app page with a second one, and the
\* third has a docs page of its own.
MCMainPage == <<{"app", "docs1"}, {"docs1"}, {"docs3"}>>
MCAppPage == [u \in AppUrls |-> {"docs2"}]
MCDocsPage == [d \in DocsUrls |-> IF d = "docs3" THEN {"vault"} ELSE {"token"}]

MCParallel ==
    [c \in Walking |-> IF c \in {"fetch_protocols", "analyse_contracts_against_templates"} THEN 1 ELSE 2]

\* A manual repetition over what was processed before.
MCRequests == {[command |-> "parse_protocols_docs_page", includeProcessed |-> TRUE]}
=============================================================================
