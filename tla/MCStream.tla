------------------------------ MODULE MCStream ------------------------------
(* Stream on a small instance. *)
EXTENDS Stream

CONSTANTS c1, c2
=============================================================================
