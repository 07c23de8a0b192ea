----------------------------- MODULE MCUpstream -----------------------------
(***************************************************************************)
(* Upstream for TLC: the registry, its realm host, a host that is neither, *)
(* a loopback host and one that is refused; three pages, of which two are  *)
(* read.                                                                   *)
(***************************************************************************)
EXTENDS Upstream
=============================================================================
