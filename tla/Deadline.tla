------------------------------ MODULE Deadline ------------------------------
(***************************************************************************)
(* The request deadline of duckdb_kql (kusto/client.py, class _Deadline)   *)
(* as the REST server uses it (server.py, KustoRestServer.run): a request  *)
(* thread takes the connection's lock, enters the deadline block, runs any *)
(* number of statements on the one shared DuckDB connection, leaves the    *)
(* block and releases the lock.  A request with a `servertimeout` also has *)
(* a daemon watcher thread, which sleeps until the deadline and from then  *)
(* on interrupts the connection again and again until the block is left.   *)
(*                                                                         *)
(* A DuckDB connection (external) runs at most one statement; interrupt()  *)
(* makes the running statement fail and does nothing when there is none.   *)
(***************************************************************************)
EXTENDS Naturals

CONSTANTS
    Requests,   \* the requests, one thread each
    Limited,    \* those that carry a servertimeout, hence have a watcher
    Nobody,     \* not a request: a free lock, an idle connection
    Statements  \* bound: how many statements a request runs at most

ASSUME LimitedAssumption    == Limited \subseteq Requests
ASSUME NobodyAssumption     == Nobody \notin Requests
ASSUME StatementsAssumption == Statements \in Nat

VARIABLES
    lock,     \* the request that holds KustoRestServer._lock
    pc,       \* where each request thread is
    left,     \* how many statements each request may still run (the bound's)
    raised,   \* the block is left by an exception
    watch,    \* where each watcher thread is
    done,     \* _done, the event of each request's _Deadline
    fired,    \* _fired
    guard,    \* who holds _guard: only the watcher holds it across steps
    stmt,     \* the request whose statement the connection is running
    cut,      \* that statement has been interrupted
    outcome   \* what the request's block ended in

vars == <<lock, pc, left, raised, watch, done, fired, guard, stmt, cut, outcome>>

requestVars == <<lock, pc, left, raised, outcome>>
connection  == <<stmt, cut>>

ThreadPoints == {"arrived", "entering", "translating", "running", "exiting",
                 "reporting", "releasing", "ended"}
WatchPoints  == {"none", "waiting", "expired", "looping", "checking",
                 "interrupting", "pausing", "ended"}
Outcomes     == {"none", "answer", "error", "timeout"}

\* Types, and two facts of every state that the code relies on without a test:
\* there is a watcher only where there is a servertimeout, and the watcher holds
\* the guard exactly from its look at _done to its interrupt.
TypeOK ==
    /\ lock    \in Requests \cup {Nobody}
    /\ pc      \in [Requests -> ThreadPoints]
    /\ left    \in [Requests -> 0..Statements]
    /\ raised  \in [Requests -> BOOLEAN]
    /\ watch   \in [Requests -> WatchPoints]
    /\ done    \in [Requests -> BOOLEAN]
    /\ fired   \in [Requests -> BOOLEAN]
    /\ guard   \in [Requests -> {"free", "watcher"}]
    /\ stmt    \in Requests \cup {Nobody}
    /\ cut     \in BOOLEAN
    /\ outcome \in [Requests -> Outcomes]
    /\ \A r \in Requests :
          /\ watch[r] # "none" => r \in Limited
          /\ guard[r] = "watcher" <=> watch[r] \in {"checking", "interrupting"}

Init ==
    /\ lock    = Nobody
    /\ pc      = [r \in Requests |-> "arrived"]
    /\ left    = [r \in Requests |-> Statements]
    /\ raised  = [r \in Requests |-> FALSE]
    /\ watch   = [r \in Requests |-> "none"]
    /\ done    = [r \in Requests |-> FALSE]
    /\ fired   = [r \in Requests |-> FALSE]
    /\ guard   = [r \in Requests |-> "free"]
    /\ stmt    = Nobody
    /\ cut     = FALSE
    /\ outcome = [r \in Requests |-> "none"]

-----------------------------------------------------------------------------
(* The request thread. *)

Goto(r, from, to) ==
    /\ pc[r] = from
    /\ pc' = [pc EXCEPT ![r] = to]

\* Mutant: no lock around the block.
AcquireUnlocked(r) ==
    /\ Goto(r, "arrived", "entering")
    /\ lock' = r
    /\ UNCHANGED <<left, raised, watch, done, fired, guard, connection, outcome>>

\* `with self._lock, ...`
Acquire(r) ==
    /\ Goto(r, "arrived", "entering")
    /\ lock = Nobody
    /\ lock' = r
    /\ UNCHANGED <<left, raised, watch, done, fired, guard, connection, outcome>>

\* Mutant: a request without a servertimeout is given a watcher too.
EnterAlwaysWatched(r) ==
    /\ Goto(r, "entering", "translating")
    /\ watch' = [watch EXCEPT ![r] = "waiting"]
    /\ UNCHANGED <<lock, left, raised, done, fired, guard, connection, outcome>>

\* __enter__: the watcher thread starts when there is a deadline.
Enter(r) ==
    /\ Goto(r, "entering", "translating")
    /\ watch' = [watch EXCEPT ![r] = IF r \in Limited THEN "waiting" ELSE "none"]
    /\ UNCHANGED <<lock, left, raised, done, fired, guard, connection, outcome>>

\* One more statement: the time zone, the schema, the query, its fetch.
StartStatement(r) ==
    /\ Goto(r, "translating", "running")
    /\ left[r] > 0
    /\ left' = [left EXCEPT ![r] = @ - 1]
    /\ stmt' = r
    /\ cut'  = FALSE
    /\ UNCHANGED <<lock, raised, watch, done, fired, guard, outcome>>

\* A statement may finish although it was interrupted: the interrupt came late.
FinishStatement(r) ==
    /\ Goto(r, "running", "translating")
    /\ stmt' = Nobody
    /\ cut'  = FALSE
    /\ UNCHANGED <<lock, left, raised, watch, done, fired, guard, outcome>>

\* An interrupted statement, or one DuckDB refuses, raises out of the block.
FailStatement(r) ==
    /\ Goto(r, "running", "exiting")
    /\ stmt'   = Nobody
    /\ cut'    = FALSE
    /\ raised' = [raised EXCEPT ![r] = TRUE]
    /\ UNCHANGED <<lock, left, watch, done, fired, guard, outcome>>

\* The block ends between statements: rows fetched, or a KQL error.
EndBlock(r) ==
    /\ Goto(r, "translating", "exiting")
    /\ \E failed \in BOOLEAN : raised' = [raised EXCEPT ![r] = failed]
    /\ UNCHANGED <<lock, left, watch, done, fired, guard, connection, outcome>>

\* Mutant: the event is set without the guard.
SetDoneUnguarded(r) ==
    /\ Goto(r, "exiting", "reporting")
    /\ done' = [done EXCEPT ![r] = TRUE]
    /\ UNCHANGED <<lock, left, raised, watch, fired, guard, connection, outcome>>

\* __exit__, first half: the event is set under the guard.
SetDone(r) ==
    /\ Goto(r, "exiting", "reporting")
    /\ guard[r] = "free"
    /\ done' = [done EXCEPT ![r] = TRUE]
    /\ UNCHANGED <<lock, left, raised, watch, fired, guard, connection, outcome>>

\* Mutant: a query that finished is answered although it overran.
ReportIfRaised(r) ==
    /\ Goto(r, "reporting", "releasing")
    /\ outcome' = [outcome EXCEPT ![r] =
                     CASE raised[r] /\ fired[r]  -> "timeout"
                       [] raised[r] /\ ~fired[r] -> "error"
                       [] ~raised[r]             -> "answer"]
    /\ UNCHANGED <<lock, left, raised, watch, done, fired, guard, connection>>

\* __exit__, second half, after the guard: a fired deadline is reported
\* whatever the block ended in.
Report(r) ==
    /\ Goto(r, "reporting", "releasing")
    /\ outcome' = [outcome EXCEPT ![r] =
                     CASE fired[r]                 -> "timeout"
                       [] ~fired[r] /\ raised[r]   -> "error"
                       [] ~fired[r] /\ ~raised[r]  -> "answer"]
    /\ UNCHANGED <<lock, left, raised, watch, done, fired, guard, connection>>

Release(r) ==
    /\ Goto(r, "releasing", "ended")
    /\ lock' = Nobody
    /\ UNCHANGED <<left, raised, watch, done, fired, guard, connection, outcome>>

-----------------------------------------------------------------------------
(* The watcher thread of a request: _watch. *)

WatchGoto(r, from, to) ==
    /\ watch[r] = from
    /\ watch' = [watch EXCEPT ![r] = to]

\* `if self._done.wait(seconds): return`
WaitDone(r) ==
    /\ WatchGoto(r, "waiting", "ended")
    /\ done[r]
    /\ UNCHANGED <<requestVars, done, fired, guard, connection>>

\* The wait gives up; a set() at the same instant may be missed.
WaitExpires(r) ==
    /\ WatchGoto(r, "waiting", "expired")
    /\ UNCHANGED <<requestVars, done, fired, guard, connection>>

Fire(r) ==
    /\ WatchGoto(r, "expired", "looping")
    /\ fired' = [fired EXCEPT ![r] = TRUE]
    /\ UNCHANGED <<requestVars, done, guard, connection>>

TakeGuard(r) ==
    /\ WatchGoto(r, "looping", "checking")
    /\ guard[r] = "free"
    /\ guard' = [guard EXCEPT ![r] = "watcher"]
    /\ UNCHANGED <<requestVars, done, fired, connection>>

\* Mutant: the event is not looked at again under the guard.
CheckNothing(r) ==
    /\ WatchGoto(r, "checking", "interrupting")
    /\ UNCHANGED <<requestVars, done, fired, guard, connection>>

\* Mutant: the watcher gives up when nothing runs yet.
CheckIdle(r) ==
    LET stop == done[r] \/ stmt = Nobody IN
    /\ WatchGoto(r, "checking", IF stop THEN "ended" ELSE "interrupting")
    /\ guard' = [guard EXCEPT ![r] = IF stop THEN "free" ELSE "watcher"]
    /\ UNCHANGED <<requestVars, done, fired, connection>>

\* `if self._done.is_set(): return`, else on to the interrupt, guard held.
CheckDone(r) ==
    /\ WatchGoto(r, "checking", IF done[r] THEN "ended" ELSE "interrupting")
    /\ guard' = [guard EXCEPT ![r] = IF done[r] THEN "free" ELSE "watcher"]
    /\ UNCHANGED <<requestVars, done, fired, connection>>

\* Mutant: the guard is kept over the pause.
InterruptGuarded(r) ==
    /\ WatchGoto(r, "interrupting", "pausing")
    /\ cut' = (stmt # Nobody)
    /\ UNCHANGED <<requestVars, done, fired, guard, stmt>>

\* connection.interrupt(): it reaches whatever statement is running by now.
Interrupt(r) ==
    /\ WatchGoto(r, "interrupting", "pausing")
    /\ guard' = [guard EXCEPT ![r] = "free"]
    /\ cut'   = (stmt # Nobody)
    /\ UNCHANGED <<requestVars, done, fired, stmt>>

\* Mutant: one interrupt and no more.
PauseOnce(r) ==
    /\ WatchGoto(r, "pausing", "ended")
    /\ UNCHANGED <<requestVars, done, fired, guard, connection>>

\* `if self._done.wait(self._REPEAT): return`
Pause(r) ==
    /\ \/ WatchGoto(r, "pausing", "looping")
       \/ done[r] /\ WatchGoto(r, "pausing", "ended")
    /\ UNCHANGED <<requestVars, done, fired, guard, connection>>

-----------------------------------------------------------------------------
Thread(r) ==
    \/ Acquire(r) \/ Enter(r) \/ StartStatement(r) \/ FinishStatement(r)
    \/ FailStatement(r) \/ EndBlock(r) \/ SetDone(r) \/ Report(r) \/ Release(r)

Watcher(r) ==
    \/ WaitDone(r) \/ WaitExpires(r) \/ Fire(r) \/ TakeGuard(r) \/ CheckDone(r)
    \/ Interrupt(r) \/ Pause(r)

AllEnded ==
    /\ \A r \in Requests : pc[r] = "ended" /\ watch[r] \in {"none", "ended"}
    /\ UNCHANGED vars

Next == AllEnded \/ \E r \in Requests : Thread(r) \/ Watcher(r)

Spec == Init /\ [][Next]_vars

(***************************************************************************)
(* Fairness.  Python runs every thread that can run, and DuckDB ends a     *)
(* statement it was told to interrupt; nothing else ends a statement, so a *)
(* statement that is not interrupted may run for ever.  A thread blocked   *)
(* on _guard gets it although the watcher keeps taking it, because the     *)
(* watcher sleeps between two interrupts with the guard free: SF.          *)
(***************************************************************************)
EndInterrupted(r) == cut /\ (FinishStatement(r) \/ FailStatement(r))

Fairness ==
    \A r \in Requests :
        /\ WF_vars(Acquire(r))
        /\ WF_vars(Enter(r) \/ StartStatement(r) \/ EndBlock(r))
        /\ WF_vars(EndInterrupted(r))
        /\ SF_vars(SetDone(r))
        /\ WF_vars(Report(r) \/ Release(r))
        /\ WF_vars(Watcher(r))

FairSpec == Spec /\ Fairness

-----------------------------------------------------------------------------
(* Properties. *)

\* A statement is interrupted only while it runs, and only by the deadline of
\* the request it belongs to: no interrupt outlives its block and lands on the
\* next request's query.  (_guard in __exit__ and _watch, the lock in run.)
OwnInterrupt == cut => stmt \in Limited /\ fired[stmt] /\ ~done[stmt]

\* One statement at a time on the shared connection, the lock holder's.
\* (`with self._lock, _Deadline(...)` spans every statement of a request.)
OneStatement ==
    \A r \in Requests : pc[r] = "running" => stmt = r /\ lock = r

\* A request with a deadline leaves the block, whenever the deadline passes:
\* before the query starts, while it runs, or after, which is what a single
\* interrupt does not give; and its watcher then stops interrupting.
LimitedEnds ==
    \A r \in Limited :
        /\ pc[r] = "entering" ~> pc[r] = "ended"
        /\ pc[r] = "ended" ~> watch[r] = "ended"

\* The deadline does not cover the wait for the lock: every request is served,
\* unless one without a deadline keeps the connection for ever.
EveryoneServed ==
    \A r \in Requests :
        <>(pc[r] = "ended" \/ \E u \in Requests \ Limited : [](lock = u))

-----------------------------------------------------------------------------
(* The promise this keeps.  A deadline that is noticed after __exit__ has    *)
(* read _fired is never reported, so it does not count as passed.            *)

phaseBar ==
    [r \in Requests |->
        CASE pc[r] = "arrived"                   -> "waiting"
          [] pc[r] \in {"releasing", "ended"}    -> "over"
          [] OTHER                               -> "active"]

lateBar ==
    [r \in Requests |->
        fired[r] /\ (pc[r] \in {"releasing", "ended"} => outcome[r] = "timeout")]

Promise == INSTANCE RequestSpec WITH holder <- lock, phase <- phaseBar, late <- lateBar

\* The threads, the event and the guard implement the promise: whatever the
\* interleaving, a request sees what RequestSpec says it may see.
ImplementsPromise == Promise!Spec
=============================================================================
