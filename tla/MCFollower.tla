------------------------------ MODULE MCFollower ------------------------------
(* The follower's loop over the chain of MCChain. *)
EXTENDS Follower, MCChain

=============================================================================
