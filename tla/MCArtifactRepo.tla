--------------------------- MODULE MCArtifactRepo ---------------------------
(* Four bundles: an artifact, its next version with a second artifact, the *)
(* second one alone, and a bundle without artifacts.                       *)
EXTENDS ArtifactRepo, TLC

CONSTANTS boot, app, d1, d2

MCManifests == {boot :> d1, (boot :> d2) @@ (app :> d1), app :> d1, <<>>}
=============================================================================
