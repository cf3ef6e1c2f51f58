---------------------------- MODULE MCLruReplacer ---------------------------
(* Model-checking instance of LruReplacer: pages are interchangeable. *)
EXTENDS LruReplacer, TLC

PageSymmetry == Permutations(PageIds)
=============================================================================
