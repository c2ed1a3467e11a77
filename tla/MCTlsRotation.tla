--------------------------- MODULE MCTlsRotation ---------------------------
(* Instance for TLC: two workers, and the shortest window the probe may have. *)
EXTENDS TlsRotation
=============================================================================
