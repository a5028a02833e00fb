---------------------------- MODULE KustoClient -----------------------------
(***************************************************************************)
(* The SDK-shaped client (kusto/client.py, class KustoClient) on a DuckDB  *)
(* connection.  Threads share clients; clients may share a connection.     *)
(* Each client has an RLock that a request holds from end to end, because  *)
(* a request is several calls on the connection: it reads which databases  *)
(* are attached, switches the connection to the one it names (USE), reads  *)
(* the schema, builds a relation and fetches it.  A write reads once more  *)
(* what is attached, to qualify its target, and `.attach` and `.detach`    *)
(* change it.  An unqualified name means the connection's current database *)
(* at the time of the fetch.                                               *)
(*                                                                         *)
(* One action is one call on the connection, or one test between two.      *)
(***************************************************************************)
EXTENDS Naturals

CONSTANTS
    Threads,
    Clients,
    Groups,        \* the sets of clients there may be on one connection
    Owners,        \* the clients that opened the connection themselves
    Writers,       \* the clients constructed with allow_write
    Databases,     \* the databases that may be attached to the connection
    Home,          \* the one it was opened on
    DefaultOf,     \* each client's default_database, NoName for none
    Requests       \* bound: how many requests a thread makes

NoName      == "no name"      \* database=None
Placeholder == "placeholder"  \* a name that no attached database has
Nobody      == "nobody"       \* a free lock
Nowhere     == "nowhere"      \* nothing read yet

Names == Databases \cup {NoName, Placeholder}

ASSUME OwnersAssumption  == Owners \subseteq Clients /\ Writers \subseteq Clients
ASSUME GroupsAssumption  == Groups \subseteq (SUBSET Clients) \ {{}}
ASSUME HomeAssumption    == Home \in Databases
ASSUME DefaultAssumption == DefaultOf \in [Clients -> Names]
ASSUME BoundAssumption   == Requests \in Nat
ASSUME NamesAssumption   == Nobody \notin Threads /\ {NoName, Placeholder, Nowhere} \cap Databases = {}

\* "query" goes through execute_query, the others through execute_mgmt, but for
\* "hidden write", a write command behind a comment, which execute takes for a
\* query.
Lifecycle == {"attach", "detach"}
Changes   == {"write"} \cup Lifecycle
Ops       == {"query", "show", "hidden write"} \cup Changes

\* arg is the database a lifecycle command attaches or detaches.
Jobs ==
    {j \in [client : Clients, db : Names, op : Ops, readonly : BOOLEAN, arg : Databases] :
        /\ j.op \notin Changes   => ~j.readonly
        /\ j.op \notin Lifecycle => j.arg = Home}

NoJob == CHOOSE j \in Jobs : TRUE  \* of a thread that makes no request

VARIABLES
    users,     \* the clients constructed on the connection
    lock,      \* the thread that holds each client's lock
    closed,    \* _is_closed of each client
    open,      \* the connection is open
    current,   \* its current database
    attached,  \* the databases attached to it
    pc,        \* where each thread is
    job,       \* the request each thread is making
    schemaOf,  \* the database whose tables it translated against
    target,    \* the database its SQL qualifies the target with, if any
    from,      \* the database its statement read, wrote, attached or detached
    steady,    \* history: the one it names has been attached since it began
    outcome,   \* how its last request ended
    left       \* how many requests each thread may still make

vars == <<users, lock, closed, open, current, attached, pc, job, schemaOf, target, from,
          steady, outcome, left>>

clientVars == <<lock, closed>>
session    == <<users, open, current, attached>>
callVars   == <<job, schemaOf, target>>

Points == {"idle", "locked", "select", "use", "selected", "schema", "built"}

TypeOK ==
    /\ users \subseteq Clients
    /\ lock \in [Clients -> Threads \cup {Nobody}]
    /\ closed \in [Clients -> BOOLEAN]
    /\ open \in BOOLEAN
    /\ attached \subseteq Databases
    /\ current \in attached
    /\ pc \in [Threads -> Points]
    /\ job \in [Threads -> Jobs]
    /\ schemaOf \in [Threads -> Databases \cup {Nowhere}]
    /\ target \in [Threads -> Databases \cup {NoName}]
    /\ from \in [Threads -> Databases \cup {Nowhere}]
    /\ steady \in [Threads -> BOOLEAN]
    /\ outcome \in [Threads -> {"none", "answer", "refused", "closed", "error"}]
    /\ left \in [Threads -> 0..Requests]

Init ==
    /\ users \in Groups
    /\ lock = [c \in Clients |-> Nobody]
    /\ closed = [c \in Clients |-> FALSE]
    /\ open = TRUE
    /\ current = Home
    /\ attached \in {d \in SUBSET Databases : Home \in d}
    /\ pc = [t \in Threads |-> "idle"]
    /\ job = [t \in Threads |-> NoJob]
    /\ schemaOf = [t \in Threads |-> Nowhere]
    /\ target = [t \in Threads |-> NoName]
    /\ from = [t \in Threads |-> Nowhere]
    /\ steady = [t \in Threads |-> FALSE]
    /\ outcome = [t \in Threads |-> "none"]
    /\ left = [t \in Threads |-> Requests]

-----------------------------------------------------------------------------
Goto(t, here, there) ==
    /\ pc[t] = here
    /\ pc' = [pc EXCEPT ![t] = there]

\* The request ends with o, and with it the `with self._lock` block and the
\* names of the call.
End(t, here, o) ==
    /\ Goto(t, here, "idle")
    /\ lock' = [lock EXCEPT ![job[t].client] = Nobody]
    /\ outcome' = [outcome EXCEPT ![t] = o]
    /\ job' = [job EXCEPT ![t] = NoJob]
    /\ schemaOf' = [schemaOf EXCEPT ![t] = Nowhere]
    /\ target' = [target EXCEPT ![t] = NoName]
    /\ UNCHANGED <<closed, users, open, current, left>>

-----------------------------------------------------------------------------
(* A request. *)

\* Mutant: the lock is not held for the request.
BeginUnlocked(t) ==
    /\ Goto(t, "idle", "locked")
    /\ left[t] > 0
    /\ left' = [left EXCEPT ![t] = @ - 1]
    /\ \E j \in Jobs :
          /\ j.client \in users
          /\ job' = [job EXCEPT ![t] = j]
          /\ lock' = [lock EXCEPT ![j.client] = t]
    /\ from' = [from EXCEPT ![t] = Nowhere]
    /\ outcome' = [outcome EXCEPT ![t] = "none"]
    /\ UNCHANGED <<closed, session, schemaOf, target>>

\* execute_query or execute_mgmt, with any arguments, gets the client's lock.
Begin(t) ==
    /\ Goto(t, "idle", "locked")
    /\ left[t] > 0
    /\ left' = [left EXCEPT ![t] = @ - 1]
    /\ \E j \in Jobs :
          /\ j.client \in users
          /\ lock[j.client] = Nobody
          /\ job' = [job EXCEPT ![t] = j]
          /\ lock' = [lock EXCEPT ![j.client] = t]
    /\ from' = [from EXCEPT ![t] = Nowhere]
    /\ outcome' = [outcome EXCEPT ![t] = "none"]
    /\ UNCHANGED <<closed, session, schemaOf, target>>

\* _check_open
CheckOpen(t) ==
    \/ /\ closed[job[t].client]
       /\ End(t, "locked", "closed")
       /\ UNCHANGED <<from, attached>>
    \/ /\ ~closed[job[t].client]
       /\ Goto(t, "locked", "select")
       /\ UNCHANGED <<clientVars, session, callVars, from, outcome, left>>

\* _attached: the name if a database of that name is attached.
Attached(name) == IF name \in attached THEN name ELSE NoName

\* A name that is not attached is refused when the client has another default,
\* and otherwise taken for the one database there is.
Conflicts(c, name) ==
    /\ name \notin attached \cup {NoName}
    /\ DefaultOf[c] \notin {NoName, name}

\* _select_database, up to its USE.
Select(t) ==
    LET j == job[t] IN
    \/ /\ Conflicts(j.client, j.db)
       /\ End(t, "select", "refused")
       /\ UNCHANGED <<from, attached>>
    \/ /\ ~Conflicts(j.client, j.db)
       /\ open \/ j.db = NoName
       /\ Goto(t, "select", IF Attached(j.db) = NoName THEN "selected" ELSE "use")
       /\ UNCHANGED <<clientVars, session, callVars, from, outcome, left>>

\* `USE "name"`
Use(t) ==
    /\ open
    /\ job[t].db \in attached
    /\ Goto(t, "use", "selected")
    /\ current' = job[t].db
    /\ UNCHANGED <<users, clientVars, open, attached, callVars, from, outcome, left>>

\* Mutant: request_readonly is a no-op.
PermittedAnyway(j) == j.op \in Changes => j.client \in Writers

\* A command that writes is refused on the query endpoint, and on the other one
\* by a client that may not write or a request that asks to be read-only.
Permitted(j) ==
    /\ j.op # "hidden write"
    /\ j.op \in Changes => j.client \in Writers /\ ~j.readonly

RefuseWrite(t) ==
    /\ ~Permitted(job[t])
    /\ End(t, "selected", "refused")
    /\ UNCHANGED <<from, attached>>

\* `.show` commands need no schema.
SkipSchema(t) ==
    /\ job[t].op = "show"
    /\ Goto(t, "selected", "schema")
    /\ UNCHANGED <<clientVars, session, callVars, from, outcome, left>>

\* engine.schema: bare table names are those of the current database.
ReadSchema(t) ==
    /\ open
    /\ job[t].op # "show" /\ Permitted(job[t])
    /\ Goto(t, "selected", "schema")
    /\ schemaOf' = [schemaOf EXCEPT ![t] = current]
    /\ UNCHANGED <<clientVars, session, job, target, from, outcome, left>>

\* con.sql of a query or a `.show`: a relation, of which nothing has run.
Build(t) ==
    /\ open
    /\ job[t].op \in {"query", "show"}
    /\ Goto(t, "schema", "built")
    /\ UNCHANGED <<clientVars, session, callVars, from, outcome, left>>

\* fetchall: names are resolved now.
Fetch(t) ==
    /\ open
    /\ job[t].op \in {"query", "show"}
    /\ End(t, "built", "answer")
    /\ from' = [from EXCEPT ![t] = current]
    /\ UNCHANGED attached

\* Mutant: the target is qualified with the name whether or not it is attached.
TranslateAnyName(t) ==
    /\ open
    /\ job[t].op \in Changes
    /\ Goto(t, "schema", "built")
    /\ target' = [target EXCEPT ![t] = job[t].db]
    /\ UNCHANGED <<clientVars, session, job, schemaOf, from, outcome, left>>

\* to_sql of a command that writes: what is attached is read a second time, and
\* the target qualified with the name if it is still there.
Translate(t) ==
    /\ open
    /\ job[t].op \in Changes
    /\ Goto(t, "schema", "built")
    /\ target' = [target EXCEPT ![t] = Attached(job[t].db)]
    /\ UNCHANGED <<clientVars, session, job, schemaOf, from, outcome, left>>

\* Mutant: the target is left to the USE that went before.
WriteUnqualified(t) ==
    /\ open
    /\ job[t].op = "write"
    /\ End(t, "built", "answer")
    /\ from' = [from EXCEPT ![t] = current]
    /\ UNCHANGED attached

\* con.sql of an ingestion, into the database its SQL names, else the current.
Write(t) ==
    /\ open
    /\ job[t].op = "write"
    /\ target[t] \in attached \cup {NoName}
    /\ End(t, "built", "answer")
    /\ from' = [from EXCEPT ![t] = IF target[t] = NoName THEN current ELSE target[t]]
    /\ UNCHANGED attached

\* con.sql of `.attach database` and of `.create database`; one that says
\* `ifnotexists` is answered for an attached database too.
Attach(t) ==
    /\ open
    /\ job[t].op = "attach"
    /\ End(t, "built", "answer")
    /\ attached' = attached \cup {job[t].arg}
    /\ from' = [from EXCEPT ![t] = job[t].arg]

\* con.sql of `.detach database`: DuckDB keeps the current one.
Detach(t) ==
    /\ open
    /\ job[t].op = "detach"
    /\ job[t].arg \in attached \ {current}
    /\ End(t, "built", "answer")
    /\ attached' = attached \ {job[t].arg}
    /\ from' = [from EXCEPT ![t] = job[t].arg]

\* A translation error, an engine error, a deadline, or the connection closed
\* or busy: any call may fail, and the request ends without an answer.
Fail(t) ==
    /\ \E p \in {"select", "use", "selected", "schema", "built"} : End(t, p, "error")
    /\ UNCHANGED <<from, attached>>

-----------------------------------------------------------------------------
\* Mutant: close does not wait for the request in flight.
CloseUnlocked(c) ==
    /\ c \in users /\ ~closed[c]
    /\ closed' = [closed EXCEPT ![c] = TRUE]
    /\ open' = (open /\ c \notin Owners)
    /\ UNCHANGED <<users, lock, current, attached, pc, callVars, from, outcome, left>>

\* close(), by any thread: under the lock, and the connection with it if the
\* client opened it.
Close(c) ==
    /\ c \in users /\ ~closed[c]
    /\ lock[c] = Nobody
    /\ closed' = [closed EXCEPT ![c] = TRUE]
    /\ open' = (open /\ c \notin Owners)
    /\ UNCHANGED <<users, lock, current, attached, pc, callVars, from, outcome, left>>

Request(t) ==
    \/ Begin(t) \/ CheckOpen(t) \/ Select(t) \/ Use(t) \/ RefuseWrite(t) \/ SkipSchema(t)
    \/ ReadSchema(t) \/ Build(t) \/ Fetch(t) \/ Translate(t) \/ Write(t) \/ Attach(t)
    \/ Detach(t) \/ Fail(t)

\* The history variable: a request's database was attached when it began, and
\* has been ever since.
Remember ==
    steady' = [t \in Threads |-> /\ pc'[t] # "idle"
                                 /\ job'[t].db \in attached'
                                 /\ pc[t] = "idle" \/ steady[t]]

AllIdle ==
    /\ \A t \in Threads : pc[t] = "idle" /\ left[t] = 0
    /\ \A c \in users : closed[c]
    /\ UNCHANGED vars

Next ==
    \/ \E t \in Threads : Request(t) /\ Remember
    \/ \E c \in Clients : Close(c) /\ Remember
    \/ AllIdle

Spec == Init /\ [][Next]_vars

-----------------------------------------------------------------------------
(* Properties. *)

\* What t's statement has just read or written.
Touches(t) == from'[t] # from[t] /\ from'[t] # Nowhere

\* Nothing else uses the connection of t's client.
Alone(t) == users = {job[t].client}

\* A request that names a database, attached when it began and not detached
\* since, is answered from it, whatever the other threads of the client name
\* meanwhile (the whole-request lock; the doc: "one client may be shared by
\* threads, as long as nothing else uses its connection meanwhile").  A write
\* lands in it even when another client switches the connection in between,
\* since its target is in the SQL; but one whose database is detached between
\* the two times it reads what is attached goes to the current one.
AnsweredFromNamed ==
    [][\A t \in Threads :
           /\ Touches(t) /\ steady[t] /\ job[t].op \notin Lifecycle
           /\ Alone(t) \/ job[t].op = "write"
           => from'[t] = job[t].db]_vars

\* The tables a query was translated against are those of the database it then
\* runs in: the schema is not stale when the statement is executed.
SchemaIsCurrent ==
    [][\A t \in Threads : Touches(t) /\ Alone(t) /\ job[t].op = "query" =>
           schemaOf[t] = from'[t]]_vars

\* After close() has returned, no request of the client touches the connection.
ClosedIsFinal ==
    \A t \in Threads :
        closed[job[t].client] => pc[t] \in {"idle", "locked"}

\* A client that may not write, a read-only request and the query endpoint
\* never get as far as writing, attaching or detaching.
OnlyPermittedWrites ==
    [][\A t \in Threads : Touches(t) /\ job[t].op \in Changes \cup {"hidden write"} =>
           job[t].client \in Writers /\ ~job[t].readonly]_vars

=============================================================================
