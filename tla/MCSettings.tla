----------------------------- MODULE MCSettings -----------------------------
(***************************************************************************)
(* Settings for TLC: two storage settings, and two Google accounts of two  *)
(* domains.                                                                *)
(***************************************************************************)
EXTENDS Settings, TLC

CONSTANTS bucket, endpoint, ann, bob, ours, theirs

Storage == <<endpoint, bucket>>
People == {ann, bob}
AllDomains == {ours, theirs}
Homes == ann :> {ours} @@ bob :> {theirs}
Symmetric == Permutations(Requests)
=============================================================================
