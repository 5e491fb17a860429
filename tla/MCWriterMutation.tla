--------------------------- MODULE MCWriterMutation ---------------------------
(* Three concurrent calls over a channel of two: the third finds it full. *)
EXTENDS WriterMutation

=============================================================================
