---------------------------- MODULE MCDismissals ----------------------------
(* Dismissals on small instances. *)
EXTENDS Dismissals

CONSTANTS p1, p2, s1, s2
=============================================================================
