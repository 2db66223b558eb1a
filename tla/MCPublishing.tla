----------------------------- MODULE MCPublishing -----------------------------
(* Contents are interchangeable. *)
EXTENDS Publishing, TLC

ContentSymmetry == Permutations(Contents)
=============================================================================
