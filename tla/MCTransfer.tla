----------------------------- MODULE MCTransfer -----------------------------
(* Transfer on a small instance, for TLC. *)
EXTENDS Transfer
=============================================================================
