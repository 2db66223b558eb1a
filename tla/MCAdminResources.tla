--------------------------- MODULE MCAdminResources ---------------------------
(* Two clients and a resource of every kind, with two ids to spare; the ids to *)
(* spare are interchangeable.                                                  *)
EXTENDS AdminResources, TLC

SpareSymmetry == Permutations(Spares)
=============================================================================
