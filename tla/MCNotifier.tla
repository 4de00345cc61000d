---------------------------- MODULE MCNotifier ----------------------------
(* Notifier on small instances. *)
EXTENDS Notifier

CONSTANTS p1, p2, s1, s2
=============================================================================
