----------------------------- MODULE MCSyncEngine -----------------------------
(* The sync engine over the chain of MCChain. *)
EXTENDS SyncEngine, MCChain

=============================================================================
