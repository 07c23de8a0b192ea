------------------------------ MODULE MCAccess ------------------------------
(***************************************************************************)
(* Access for TLC: two users, a team, a name whose repository can be made  *)
(* anew, and a personal access token.                                      *)
(***************************************************************************)
EXTENDS Access, TLC

Symmetric == Permutations(Requests) \cup Permutations(RepoIds) \cup Permutations(Users)
=============================================================================
