--------------------------- MODULE MCConfigReload ---------------------------
(* Instance of ConfigReload for TLC.                                       *)
EXTENDS ConfigReloadProperties, TLC

Alike == Permutations(Models) \cup Permutations(Versions) \cup Permutations(Selectors)

=============================================================================
