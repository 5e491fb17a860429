------------------------------ MODULE MCWitness ------------------------------
(* One listed logo whose media database is lost once.                       *)
EXTENDS Witness
=============================================================================
