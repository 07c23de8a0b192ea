----------------------------- MODULE MCDomains ------------------------------
(***************************************************************************)
(* Domains for TLC: two domains, one contact that can be set and cleared,  *)
(* and a server that starts with both domains or with none.                *)
(***************************************************************************)
EXTENDS Domains

CONSTANTS a, b

Two == {a, b}
Both == <<a, b>>
=============================================================================
