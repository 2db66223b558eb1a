----------------------- MODULE MCFirebaseAppInternals -----------------------
(* Small instances of FirebaseAppInternals for TLC. *)
EXTENDS FirebaseAppInternals, TLC

CONSTANTS c1, c2, k1, k2, l1, t1, t2

Symmetry == Permutations({c1, c2}) \cup Permutations({k1, k2})
            \cup Permutations({t1, t2})
=============================================================================
