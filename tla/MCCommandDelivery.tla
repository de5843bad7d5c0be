--------------------------- MODULE MCCommandDelivery ---------------------------
(* Model-checking instance of CommandDelivery.  One socket at a time: the races of two
   are those of WsRegistry, which this module implements. *)
EXTENDS CommandDelivery
=============================================================================
