----------------------------- MODULE MCDelivery -----------------------------
(* One session on its successive connections.                              *)
EXTENDS Delivery
=============================================================================
