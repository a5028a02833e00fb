---------------------------- MODULE RequestSpec -----------------------------
(***************************************************************************)
(* What the deadline promises, without threads, events or guards: requests *)
(* have the connection one after the other; the deadline of the one that   *)
(* has it may pass; from then on, and only then, what it runs may be cut   *)
(* short, and the timeout is its only outcome.                             *)
(***************************************************************************)
CONSTANTS Requests, Limited, Nobody

VARIABLES
    holder,   \* the request that has the connection
    phase,    \* "waiting", "active" or "over", for each request
    late,     \* the deadline passed while the request was active
    cut,      \* what is running has been interrupted
    outcome

vars == <<holder, phase, late, cut, outcome>>

Init ==
    /\ holder  = Nobody
    /\ phase   = [r \in Requests |-> "waiting"]
    /\ late    = [r \in Requests |-> FALSE]
    /\ cut     = FALSE
    /\ outcome = [r \in Requests |-> "none"]

Begin(r) ==
    /\ holder = Nobody /\ phase[r] = "waiting"
    /\ holder' = r
    /\ phase'  = [phase EXCEPT ![r] = "active"]
    /\ UNCHANGED <<late, cut, outcome>>

DeadlinePasses(r) ==
    /\ r \in Limited /\ phase[r] = "active"
    /\ late' = [late EXCEPT ![r] = TRUE]
    /\ UNCHANGED <<holder, phase, cut, outcome>>

CutShort(r) ==
    /\ holder = r /\ phase[r] = "active" /\ late[r]
    /\ cut' = TRUE
    /\ UNCHANGED <<holder, phase, late, outcome>>

CutEnds ==
    /\ cut' = FALSE
    /\ UNCHANGED <<holder, phase, late, outcome>>

Answer(r, o) ==
    /\ phase[r] = "active"
    /\ ~cut
    /\ o \in (IF late[r] THEN {"timeout"} ELSE {"answer", "error"})
    /\ phase'   = [phase EXCEPT ![r] = "over"]
    /\ outcome' = [outcome EXCEPT ![r] = o]
    /\ UNCHANGED <<holder, late, cut>>

Leave(r) ==
    /\ holder = r /\ phase[r] = "over"
    /\ holder' = Nobody
    /\ UNCHANGED <<phase, late, cut, outcome>>

Next ==
    \/ CutEnds
    \/ \E r \in Requests :
        \/ Begin(r) \/ DeadlinePasses(r) \/ CutShort(r) \/ Leave(r)
        \/ \E o \in {"timeout", "answer", "error"} : Answer(r, o)

Spec == Init /\ [][Next]_vars
=============================================================================
