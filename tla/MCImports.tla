------------------------------ MODULE MCImports -----------------------------
(***************************************************************************)
(* Imports for TLC: an index x of two images, whose layers overlap and one *)
(* of which has a layer twice; the second repository has an index y of an  *)
(* image and of x, too deep to be copied whole.                            *)
(***************************************************************************)
EXTENDS Imports, TLC

CONSTANTS r1, r2, b1, b2, x, y, m1, m2

TwoRepos == {r1, r2}
TwoBlobs == {b1, b2}
FourManifests == {x, y, m1, m2}
DescOf == x :> <<>> @@ y :> <<>> @@ m1 :> <<b1>> @@ m2 :> <<b1, b2, b2>>
ChildOf == x :> <<m1, m2>> @@ y :> <<m2, x>> @@ m1 :> <<>> @@ m2 :> <<>>
TagsOf == r1 :> <<m2, x>> @@ r2 :> <<y>>
=============================================================================
