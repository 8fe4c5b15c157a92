----------------------------- MODULE MCManifest -----------------------------
(***************************************************************************)
(* TLC instances of Manifest: versions 1, 1-r1 and 2 of a package whose    *)
(* ebuilds fetch one distfile named after the version, or that one and one *)
(* they all share.                                                         *)
(***************************************************************************)
EXTENDS Manifest

ThreeVersions == {<<1, 0>>, <<1, 1>>, <<2, 0>>}
VersionedOrBoth == {{"ver"}, {"ver", "fix"}}
OwnPatch == {<<"patch", 0, 0>>}
=============================================================================
