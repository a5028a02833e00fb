------------------------------- MODULE Server -------------------------------
(***************************************************************************)
(* The REST front end, `duckdb-kql serve` (server.py): one thread per      *)
(* request (ThreadingHTTPServer), one DuckDB connection for all of them,   *)
(* one lock.  A request passes the checks of do_POST, among them serves(), *)
(* which takes and gives back the lock, and then runs under the lock: it   *)
(* checks its database again, translates and executes.  Between the two    *)
(* another request may attach or detach a database.                        *)
(*                                                                         *)
(* What the connection runs is kept to its effect: which database a result *)
(* was read from, how often each database was written, which databases are *)
(* attached.  Module Deadline is what happens inside the lock when the     *)
(* request has a servertimeout; here that is the step GiveUp.              *)
(***************************************************************************)
EXTENDS Naturals

CONSTANTS
    Requests,
    Databases,    \* the names a database of this process may have
    Start,        \* the one it started in, the connection's current database
    MaxWrites     \* bound: how often one database is written

ASSUME StartAssumption == Start \in Databases
ASSUME WriteAssumption == MaxWrites \in Nat

Default == "default"    \* the placeholder of a client that has not chosen yet
Nobody  == "nobody"     \* a free lock; also "read from no database"

ASSUME NobodyAssumption == Nobody \notin Requests

Ops == {"query", "tables", "write", "attach", "detach"}

\* What decides a request: the `db` field, the command, the database a
\* lifecycle command names, request_readonly, whether the table a query reads
\* stands where qualification reaches it, and what do_POST refuses it for.
Kinds ==
    {k \in [db : Databases \cup {Default}, op : Ops, arg : Databases,
            readonly : BOOLEAN, reached : BOOLEAN,
            fault : {"none", "malformed", "option"}] :
        /\ k.op \notin {"attach", "detach"} => k.arg = Start
        /\ k.op # "query" => k.reached
        /\ k.fault # "none" => k.op = "query" /\ ~k.readonly /\ k.reached}

VARIABLES
    allowWrite, \* --allow-write, never changed while the server runs
    lock,      \* the request thread that holds _lock
    pc,        \* where each request thread is
    req,       \* what each request asks for
    status,    \* the HTTP status sent, 0 before
    from,      \* the database its result was read from or written to
    attached,  \* the databases attached to the connection
    writes     \* how often each database was written

vars == <<allowWrite, lock, pc, req, status, from, attached, writes>>

\* What a request that does not write leaves alone.
engine == <<allowWrite, attached, writes>>

Points == {"accept", "received", "known", "checked", "running", "translated",
           "executed", "failed", "sent"}

TypeOK ==
    /\ allowWrite \in BOOLEAN
    /\ lock \in Requests \cup {Nobody}
    /\ pc \in [Requests -> Points]
    /\ req \in [Requests -> Kinds]
    /\ status \in [Requests -> {0, 200, 400, 403, 404}]
    /\ from \in [Requests -> Databases \cup {Nobody}]
    /\ attached \subseteq Databases
    /\ writes \in [Databases -> 0..MaxWrites]

\* Every request is whatever it turns out to be when it is received.
Blank == [db |-> Default, op |-> "query", arg |-> Start, readonly |-> FALSE,
          reached |-> TRUE, fault |-> "none"]

Init ==
    /\ allowWrite \in BOOLEAN
    /\ lock = Nobody
    /\ pc = [r \in Requests |-> "accept"]
    /\ req = [r \in Requests |-> Blank]
    /\ status = [r \in Requests |-> 0]
    /\ from = [r \in Requests |-> Nobody]
    /\ \E more \in SUBSET Databases : attached = more \cup {Start}
    /\ writes = [d \in Databases |-> 0]

-----------------------------------------------------------------------------
(* The handler, do_POST. *)

Goto(r, from_, to) ==
    /\ pc[r] = from_
    /\ pc' = [pc EXCEPT ![r] = to]

\* Send a status without having touched the connection.
Refuse(r, from_, s) ==
    /\ Goto(r, from_, "sent")
    /\ status' = [status EXCEPT ![r] = s]
    /\ UNCHANGED <<lock, req, from, engine>>

Receive(r) ==
    /\ Goto(r, "accept", "received")
    /\ \E k \in Kinds : req' = [req EXCEPT ![r] = k]
    /\ UNCHANGED <<lock, status, from, engine>>

\* Not local, no such route, a body that is no JSON object, no `csl`.
RefuseMalformed(r) ==
    /\ req[r].fault = "malformed"
    /\ \E s \in {400, 403, 404} : Refuse(r, "received", s)

\* serves(): databases() reads the catalog under the lock and gives it back.
Serves(d) == d \in attached \/ d = Default

CheckServed(r) ==
    /\ req[r].fault # "malformed"
    /\ Goto(r, "received", IF Serves(req[r].db) THEN "known" ELSE "sent")
    /\ lock = Nobody
    /\ status' = [status EXCEPT ![r] = IF Serves(req[r].db) THEN 0 ELSE 404]
    /\ UNCHANGED <<lock, req, from, engine>>

RefuseOption(r) == req[r].fault = "option" /\ Refuse(r, "known", 400)

IsWriteCommand(k) == k.op \in {"write", "attach", "detach"}

RefuseReadOnly(r) ==
    /\ req[r].fault = "none"
    /\ req[r].readonly /\ IsWriteCommand(req[r])
    /\ Refuse(r, "known", 400)

\* Mutant: the option is classified and then not looked at.
PassAnyOption(r) ==
    /\ req[r].fault = "none"
    /\ Goto(r, "known", "checked")
    /\ UNCHANGED <<lock, req, status, from, engine>>

PassOptions(r) ==
    /\ req[r].fault = "none"
    /\ ~(req[r].readonly /\ IsWriteCommand(req[r]))
    /\ Goto(r, "known", "checked")
    /\ UNCHANGED <<lock, req, status, from, engine>>

-----------------------------------------------------------------------------
(* run(), all of it under the lock. *)

\* Mutant: the request's database is validated and then dropped.
TargetDropped(k) == Start

\* The database a request's unqualified names are qualified with during
\* translation; without one they mean the connection's current database.
Target(k) == IF k.db = Default THEN Start ELSE k.db

Acquire(r) ==
    /\ Goto(r, "checked", "running")
    /\ lock = Nobody
    /\ lock' = r
    /\ UNCHANGED <<req, status, from, engine>>

\* Mutant: the error is swallowed and nothing is sent.
DatabaseGoneSilently(r) ==
    /\ req[r].db \notin attached \cup {Default}
    /\ Goto(r, "running", "failed")
    /\ UNCHANGED <<lock, req, status, from, engine>>

\* Mutant: the error is not a KqlError and becomes an internal one.
DatabaseGoneUncaught(r) ==
    /\ req[r].db \notin attached \cup {Default}
    /\ Goto(r, "running", "failed")
    /\ status' = [status EXCEPT ![r] = 500]
    /\ UNCHANGED <<lock, req, from, engine>>

\* _check_database: a database that was detached since serves() is a KqlError.
DatabaseGone(r) ==
    /\ req[r].db \notin attached \cup {Default}
    /\ Goto(r, "running", "failed")
    /\ status' = [status EXCEPT ![r] = 400]
    /\ UNCHANGED <<lock, req, from, engine>>

\* Mutant: lifecycle commands are not behind the write gate.
TranslateIngestionGated(r) ==
    LET refused == req[r].op = "write" /\ ~allowWrite IN
    /\ req[r].db \in attached \cup {Default}
    /\ Goto(r, "running", IF refused THEN "failed" ELSE "translated")
    /\ status' = [status EXCEPT ![r] = IF refused THEN 403 ELSE 0]
    /\ UNCHANGED <<lock, req, from, engine>>

\* to_sql with the server's allow_write: a refused write is a 403.
Translate(r) ==
    LET refused == IsWriteCommand(req[r]) /\ ~allowWrite IN
    /\ req[r].db \in attached \cup {Default}
    /\ Goto(r, "running", IF refused THEN "failed" ELSE "translated")
    /\ status' = [status EXCEPT ![r] = IF refused THEN 403 ELSE 0]
    /\ UNCHANGED <<lock, req, from, engine>>

\* A KQL error, a DuckDB error or the deadline, before anything was written.
GiveUp(r) ==
    /\ \E p \in {"running", "translated"} : Goto(r, p, "failed")
    /\ status' = [status EXCEPT ![r] = 400]
    /\ UNCHANGED <<lock, req, from, engine>>

\* The deadline passes after the last statement and before the block is left:
\* the request fails, and what it wrote stays written.
Overrun(r) ==
    /\ Goto(r, "executed", "failed")
    /\ status' = [status EXCEPT ![r] = 400]
    /\ UNCHANGED <<lock, req, from, engine>>

\* A query reads the database its table was qualified with.  A table inside
\* print, range, sort, top or an index is left unqualified, and means the
\* current database, which no request changes.
Query(r) ==
    /\ req[r].op = "query"
    /\ Goto(r, "translated", "executed")
    /\ from' = [from EXCEPT ![r] = IF req[r].reached THEN Target(req[r]) ELSE Start]
    /\ UNCHANGED <<lock, req, status, engine>>

\* `.show tables` reads current_database(), which no request changes.
ShowTables(r) ==
    /\ req[r].op = "tables"
    /\ Goto(r, "translated", "executed")
    /\ from' = [from EXCEPT ![r] = Start]
    /\ UNCHANGED <<lock, req, status, engine>>

Write(r) ==
    LET d == Target(req[r]) IN
    /\ req[r].op = "write"
    /\ writes[d] < MaxWrites
    /\ Goto(r, "translated", "executed")
    /\ from' = [from EXCEPT ![r] = d]
    /\ writes' = [writes EXCEPT ![d] = @ + 1]
    /\ UNCHANGED <<allowWrite, lock, req, status, attached>>

\* ATTACH refuses a name that is attached already.
Attach(r) ==
    /\ req[r].op = "attach"
    /\ req[r].arg \notin attached
    /\ Goto(r, "translated", "executed")
    /\ attached' = attached \cup {req[r].arg}
    /\ UNCHANGED <<allowWrite, lock, req, status, from, writes>>

\* DETACH refuses the current database and one that is not attached.
Detach(r) ==
    /\ req[r].op = "detach"
    /\ req[r].arg \in attached \ {Start}
    /\ Goto(r, "translated", "executed")
    /\ attached' = attached \ {req[r].arg}
    /\ UNCHANGED <<allowWrite, lock, req, status, from, writes>>

\* Leaving the `with` block gives the lock back, then the handler answers.
Respond(r) ==
    /\ \E p \in {"executed", "failed"} : Goto(r, p, "sent")
    /\ lock' = Nobody
    /\ status' = [status EXCEPT ![r] = IF pc[r] = "executed" THEN 200 ELSE @]
    /\ UNCHANGED <<req, from, engine>>

-----------------------------------------------------------------------------
Handler(r) ==
    \/ Receive(r) \/ RefuseMalformed(r) \/ CheckServed(r) \/ RefuseOption(r)
    \/ RefuseReadOnly(r) \/ PassOptions(r)

Run(r) ==
    \/ Acquire(r) \/ DatabaseGone(r) \/ Translate(r) \/ GiveUp(r) \/ Overrun(r)
    \/ Query(r) \/ ShowTables(r) \/ Write(r) \/ Attach(r) \/ Detach(r) \/ Respond(r)

AllSent == (\A r \in Requests : pc[r] = "sent") /\ UNCHANGED vars

Next == AllSent \/ \E r \in Requests : Handler(r) \/ Run(r)

Spec == Init /\ [][Next]_vars

\* Every request thread is scheduled and every statement ends.
FairSpec == Spec /\ \A r \in Requests : WF_vars(Handler(r) \/ Run(r))

-----------------------------------------------------------------------------
(* Properties. *)

\* Data comes from, and goes to, a database that is attached when it is read or
\* written, and it is the one the client selected: whatever other requests
\* attach and detach between the check in do_POST and the run, and although
\* the connection's current database is another one.  A table that
\* qualification does not reach is read from the current one: module Scopes has
\* that violation (EveryTableHasADatabase).
AnsweredFromSelected ==
    [][\A r \in Requests :
        from'[r] # from[r] /\ req[r].op \in {"query", "write"} =>
            /\ from'[r] \in attached
            /\ req[r].reached => req[r].db \in {from'[r], Default}]_vars

\* A server without --allow-write, and a read-only request, change nothing:
\* no database is written, attached or detached on their behalf.
OnlyPermittedWrites ==
    [][engine' # engine =>
        /\ allowWrite
        /\ \A r \in Requests : pc'[r] = "executed" /\ pc[r] # "executed" =>
               ~req[r].readonly]_vars

\* Every request is answered, whatever the others do.
EveryRequestAnswered == \A r \in Requests : <>(status[r] # 0)
=============================================================================
