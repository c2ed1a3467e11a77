------------------------------ MODULE MCPgPools ------------------------------
(* Instance for TLC: four connections instead of 256, one to three workers.
   One worker has them all, two share them evenly, and three leave a remainder
   and make bananabread divide to less than one. *)
EXTENDS PgPools
=============================================================================
