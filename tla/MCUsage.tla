------------------------------ MODULE MCUsage ------------------------------
(***************************************************************************)
(* Usage for TLC, which tells no day from a number as it compares them:    *)
(* the day that never was is a negative number.                            *)
(***************************************************************************)
EXTENDS Usage, TLC

NoDay == -1
=============================================================================
