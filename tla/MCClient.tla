------------------------------ MODULE MCClient ------------------------------
(* One client with two sending goroutines, a short queue and few packets.  *)
EXTENDS Client
=============================================================================
