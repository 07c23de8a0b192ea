-------------------------- MODULE MCUploadSessions --------------------------
(***************************************************************************)
(* UploadSessions for TLC.  Upload ids and requests are interchangeable;   *)
(* the liveness runs leave the symmetry out.                               *)
(***************************************************************************)
EXTENDS UploadSessions, TLC

Symmetry == Permutations(Sessions) \cup Permutations(Requests)

\* Where a request can end in the middle of finish.
FinishPoints == {"finish"} \X
    {"body", "part", "quota", "mismatch", "put", "tail", "complete", "copy", "cleanup", "record"}

\* A fault at any await, and a restart anywhere.
AllPoints == FinishPoints \cup
    {<<"start", "create">>, <<"start", "insert">>, <<"start", "reap">>, <<"start", "abort">>, <<"patch", "body">>,
     <<"patch", "part">>, <<"patch", "abort">>, <<"cancel", "abort">>, <<"finish", "abort">>,
     <<"storage", "abort">>, <<"storage", "cleanup">>, <<"server", "restart">>}
=============================================================================
