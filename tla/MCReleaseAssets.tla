-------------------------- MODULE MCReleaseAssets ---------------------------
(***************************************************************************)
(* Two releases of one commit for TLC: the first has up to two assets, one *)
(* more than the cap of a listing; the second has one, over the size cap   *)
(* of a download.                                                          *)
(***************************************************************************)
EXTENDS ReleaseAssets, TLC

CONSTANTS s1, s2, v1, v2, commit, exe, zip, iso, x1, x2

MCSessions == {s1, s2}
MCReleases == {v1, v2}
MCSourceOf == v1 :> commit @@ v2 :> commit
MCAssets == {exe, zip, iso}
MCReleaseOf == exe :> v1 @@ zip :> v1 @@ iso :> v2
MCOversized == {iso}
MCCalls == {x1, x2}
Symmetry == Permutations(MCSessions) \cup Permutations(MCCalls) \cup Permutations({exe, zip})

=============================================================================
