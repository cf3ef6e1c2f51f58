----------------------------- MODULE MCFlusher ------------------------------
(* Model-checking instances of Flusher: two clients, who are               *)
(* interchangeable, as the pages are.                                      *)
EXTENDS Flusher, TLC

CONSTANTS c1, c2, p1, p2, p3

MCSymmetry == Permutations(Clients) \cup Permutations(Pages)
=============================================================================
