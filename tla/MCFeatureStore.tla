--------------------------- MODULE MCFeatureStore ---------------------------
(***************************************************************************)
(* FeatureStore for TLC.  Requests are interchangeable, but for those that *)
(* may be POSTs: no operator of the specification orders or chooses them.  *)
(***************************************************************************)
EXTENDS FeatureStore, TLC

RequestSymmetry == Permutations(Creators) \cup Permutations(Requests \ Creators)

=============================================================================
