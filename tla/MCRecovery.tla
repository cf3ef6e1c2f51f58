----------------------------- MODULE MCRecovery -----------------------------
(* Model-checking instances of Recovery: two pages. *)
EXTENDS Recovery

CONSTANTS p1, p2

MCPages == {p1, p2}
=============================================================================
