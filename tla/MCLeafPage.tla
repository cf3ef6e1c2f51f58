----------------------------- MODULE MCLeafPage -----------------------------
(* Model-checking instance of LeafPage: a page for up to three of the      *)
(* smallest records, with the constants of page.rs scaled down.            *)
EXTENDS LeafPage

CONSTANTS v1, v2, v4, v5   (* payloads, named after their sizes *)

(* Several sizes, up to and beyond MAX_VALUE_SIZE. *)
MCPayloads == {v1, v2, v4, v5}
MCSize ==
  [v \in MCPayloads |-> IF v = v1 THEN 1 ELSE IF v = v2 THEN 2 ELSE IF v = v4 THEN 4 ELSE 5]
=============================================================================
