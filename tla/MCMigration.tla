----------------------------- MODULE MCMigration -----------------------------
(* One consumer on each queue and a transaction that transfers two tokens. *)
EXTENDS Migration, TLC

CONSTANTS a1, a2

MCTokens == 1 :> {a1, a2}
=============================================================================
