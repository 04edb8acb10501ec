--------------------------- MODULE MCPluginConfig ---------------------------
(***************************************************************************)
(* PluginConfig for TLC.  Names are interchangeable, and so are processes. *)
(***************************************************************************)
EXTENDS PluginConfig, TLC

MCUrls == {"https://oapif", "https://oapif/"}

MCStripped == [url \in MCUrls |-> "https://oapif"]

Symmetry == Permutations(Processes) \cup Permutations(Names)

=============================================================================
