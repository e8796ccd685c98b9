--------------------------- MODULE MCGuildStreams ---------------------------
(***************************************************************************)
(* Model-checking instances of GuildStreams.  Without streams nothing is   *)
(* checked of liveness, and the identities are interchangeable.            *)
(***************************************************************************)
EXTENDS GuildInvariant, TLC

Symmetry == Permutations(Requests) \cup Permutations(Users) \cup Permutations(Channels)
=============================================================================
