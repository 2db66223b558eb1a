--------------------------- MODULE MCAppLifecycle ---------------------------
(* Small instances of AppLifecycle for TLC. *)
EXTENDS AppLifecycle, TLC

CONSTANTS a1, a2, a3, s1, s2, d1, d2, d3, n1, n2

Symmetry == Permutations({a1, a2, a3}) \cup Permutations({d1, d2, d3})
=============================================================================
