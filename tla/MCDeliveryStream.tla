--------------------------- MODULE MCDeliveryStream ---------------------------
(* Clients of two kinds: one takes everything, one follows a single topic. *)
EXTENDS DeliveryStream, TLC

CONSTANTS all, one, a, b

MCFilter == (all :> Everything) @@ (one :> a)
MCBatches == {<<a>>, <<b, b>>}

=============================================================================
