----------------------------- MODULE MCCrawler -----------------------------
(* The crawler on a small chain: two pods that swap roles freely. *)
EXTENDS Crawler, TLC

PodSymmetry == Permutations(Pods)
=============================================================================
