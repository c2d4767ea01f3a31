------------------------- MODULE MCSessionMetadata -------------------------
(* Instance of SessionMetadata for TLC. *)
EXTENDS SessionMetadataProperties, TLC

Alike == Permutations(Requests) \cup Permutations(Workspaces)

=============================================================================
