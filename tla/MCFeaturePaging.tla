-------------------------- MODULE MCFeaturePaging --------------------------
(***************************************************************************)
(* FeaturePaging for TLC.                                                  *)
(***************************************************************************)
EXTENDS FeaturePaging

SoundTraversals ==
    {[mode |-> "parameters", query |-> q, limit |-> l] : q \in {"filter", "bbox"}, l \in 1 .. 2}
    \cup {[mode |-> "links", query |-> "all", limit |-> l] : l \in {1, 3}}

FilteredLinks == {[mode |-> "links", query |-> "filter", limit |-> 1]}

=============================================================================
