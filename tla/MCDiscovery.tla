---------------------------- MODULE MCDiscovery ----------------------------
(* Discovery on a small instance: calls and tokens may be exchanged. *)
EXTENDS Discovery, TLC

CallSymmetry == Permutations(Calls) \cup Permutations(Tokens)
=============================================================================
