-------------------------- MODULE MCManifestCache --------------------------
(***************************************************************************)
(* ManifestCache on one repository, for TLC.  The request slots, the       *)
(* digests and the media types are interchangeable model values; Idle      *)
(* chooses a repository, so Repos is in no symmetry set.                   *)
(***************************************************************************)
EXTENDS ManifestCache, TLC

Symmetry ==
    Permutations(Clients) \cup Permutations(Digests)
    \cup Permutations(Tags) \cup Permutations(MediaTypes)
=============================================================================
