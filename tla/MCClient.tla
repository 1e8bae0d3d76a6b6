------------------------------- MODULE MCClient -------------------------------
(* The client for TLC. *)
EXTENDS Client
===============================================================================
