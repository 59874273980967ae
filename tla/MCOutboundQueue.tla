----------------------------- MODULE MCOutboundQueue -----------------------------
(* The message queue on a small instance. *)
EXTENDS OutboundQueue
================================================================================
