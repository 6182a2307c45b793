-------------------------- MODULE MCAssetsProcessor --------------------------
(***************************************************************************)
(* Two workers on a pair and the token it is made of.                      *)
(***************************************************************************)
EXTENDS AssetsProcessor

MCPair == [a \in Assets |-> IF a = "pair" THEN <<"token">> ELSE <<>>]
=============================================================================
