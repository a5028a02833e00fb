----------------------------- MODULE MCDeadline -----------------------------
(* Two requests with a servertimeout next to one without.                   *)
EXTENDS Deadline
CONSTANTS r1, r2, r3
MCRequests == {r1, r2, r3}
MCLimited == {r1, r2}
=============================================================================
