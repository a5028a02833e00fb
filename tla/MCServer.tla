------------------------------ MODULE MCServer ------------------------------
(* Two requests, over the startup database and one more. *)
EXTENDS Server
CONSTANTS r1, r2
MCRequests == {r1, r2}
MCDatabases == {"main", "sales"}
=============================================================================
