------------------------- MODULE KustoClientProofs -------------------------
(***************************************************************************)
(* Proofs about the client, for any number of threads, clients, databases  *)
(* and requests: a request holds its client's lock from end to end, so     *)
(* that the connection stays in the database it selected, its schema stays *)
(* that database's, and close() finds no request on the connection.        *)
(***************************************************************************)
EXTENDS KustoClient, TLAPS

\* A request in flight holds the lock of its client.
LockInv ==
    \A t \in Threads : pc[t] # "idle" => /\ lock[job[t].client] = t
                                         /\ job[t].client \in users

\* What a request has been through when it is at a point.
PointInv ==
    \A t \in Threads :
        /\ pc[t] \in {"schema", "built"} => Permitted(job[t])
        /\ pc[t] = "built" /\ job[t].op = "write" /\ steady[t] => target[t] = job[t].db

\* What the history variable remembers.
SteadyInv == \A t \in Threads : steady[t] => job[t].db \in attached

\* Past its USE, a request that is alone on the connection finds it where it
\* put it, and its schema is of that database.
CurrentInv ==
    \A t \in Threads : Alone(t) =>
        /\ pc[t] \in {"selected", "schema", "built"} /\ steady[t] => current = job[t].db
        /\ pc[t] \in {"schema", "built"} /\ job[t].op = "query" => schemaOf[t] = current

IInv == TypeOK /\ LockInv /\ PointInv /\ SteadyInv /\ CurrentInv /\ ClosedIsFinal

-----------------------------------------------------------------------------
LEMMA JobType ==
    ASSUME NEW j \in Jobs
    PROVE  j.client \in Clients /\ j.db \in Names /\ j.op \in Ops /\ j.readonly \in BOOLEAN
           /\ j.arg \in Databases
BY DEF Jobs

\* There is a request to make as soon as there is a client.
LEMMA SomeJob ==
    ASSUME NEW c \in Clients
    PROVE  NoJob \in Jobs
<1> DEFINE j == [client |-> c, db |-> NoName, op |-> "query", readonly |-> FALSE, arg |-> Home]
<1>1. j \in Jobs
  BY HomeAssumption DEF Jobs, Names, Ops, Changes, Lifecycle
<1> QED
  BY <1>1 DEF NoJob

LEMMA Initially == Init => IInv
<1> SUFFICES ASSUME Init PROVE IInv
  OBVIOUS
<1>1. PICK c \in Clients : TRUE
  BY GroupsAssumption DEF Init
<1>2. NoJob \in Jobs
  BY SomeJob
<1>3. TypeOK
  BY <1>2, GroupsAssumption, HomeAssumption, BoundAssumption DEF Init, TypeOK, Points
<1>4. LockInv /\ PointInv /\ SteadyInv /\ CurrentInv /\ ClosedIsFinal
  BY DEF Init, LockInv, PointInv, SteadyInv, CurrentInv, ClosedIsFinal
<1> QED
  BY <1>3, <1>4 DEF IInv

-----------------------------------------------------------------------------
(* Two requests on one client are one. *)

\* A request that is past the lock is the only one of its client.
LEMMA OnePerClient ==
    ASSUME LockInv, NEW t \in Threads, NEW u \in Threads,
           pc[t] # "idle", pc[u] # "idle", job[t].client = job[u].client
    PROVE  t = u
BY DEF LockInv

\* Alone on the connection, it is the only one of all.
LEMMA AloneIsOnly ==
    ASSUME LockInv, NEW t \in Threads, NEW u \in Threads,
           Alone(t), pc[t] # "idle", pc[u] # "idle"
    PROVE  t = u
<1>1. job[u].client = job[t].client
  BY DEF LockInv, Alone
<1> QED
  BY <1>1, OnePerClient

-----------------------------------------------------------------------------
(* How a request moves: what a step of its thread leaves alone. *)

\* What Remember does to a thread's history.
LEMMA Remembers ==
    ASSUME IInv, [Next]_vars, NEW t \in Threads, steady'[t]
    PROVE  /\ job'[t].db \in attached'
           /\ pc[t] # "idle" => steady[t]
<1>1. CASE Remember
  BY <1>1 DEF Remember
<1>2. CASE UNCHANGED vars
  BY <1>2 DEF vars, IInv, SteadyInv
<1> QED
  BY <1>1, <1>2 DEF Next, AllIdle

LEMMA SteadyStep == IInv /\ [Next]_vars => SteadyInv'
BY Remembers DEF SteadyInv

LEMMA SteadyType == TypeOK /\ [Next]_vars => steady' \in [Threads -> BOOLEAN]
<1>1. CASE Remember
  <2> DEFINE S(t) == /\ pc'[t] # "idle"
                     /\ job'[t].db \in attached'
                     /\ pc[t] = "idle" \/ steady[t]
  <2>1. \A t \in Threads : S(t) \in BOOLEAN
    OBVIOUS
  <2> HIDE DEF S
  <2>2. [t \in Threads |-> S(t)] \in [Threads -> BOOLEAN]
    BY <2>1
  <2> QED
    BY <1>1, <2>2 DEF Remember, S
<1>2. CASE TypeOK /\ UNCHANGED vars
  BY <1>2 DEF vars, TypeOK
<1> QED
  BY <1>1, <1>2 DEF Next, AllIdle

LEMMA TypeStep == IInv /\ [Next]_vars => TypeOK'
<1> SUFFICES ASSUME IInv, [Next]_vars PROVE TypeOK'
  OBVIOUS
<1> USE DEF Goto, Points
<1>0. TypeOK /\ steady' \in [Threads -> BOOLEAN]
  BY SteadyType DEF IInv
<1>1. ASSUME NEW t \in Threads, Begin(t) PROVE TypeOK'
  <2>1. PICK j \in Jobs : job' = [job EXCEPT ![t] = j] /\ lock' = [lock EXCEPT ![j.client] = t]
    BY <1>1 DEF Begin
  <2>2. left' \in [Threads -> 0..Requests]
    BY <1>0, <1>1, BoundAssumption DEF Begin, TypeOK
  <2> QED
    BY <1>0, <1>1, <2>1, <2>2 DEF Begin, TypeOK, session
<1>2. ASSUME NEW t \in Threads, NEW here, NEW o \in {"answer", "refused", "closed", "error"},
             End(t, here, o), from' \in [Threads -> Databases \cup {Nowhere}],
             attached' \subseteq Databases, current \in attached'
      PROVE TypeOK'
  <2>1. NoJob \in Jobs
    BY <1>0 DEF TypeOK, NoJob
  <2> QED
    BY <1>0, <1>2, <2>1, JobType DEF End, TypeOK
<1>3. ASSUME NEW t \in Threads, CheckOpen(t) PROVE TypeOK'
  BY <1>0, <1>2, <1>3 DEF CheckOpen, TypeOK, clientVars, session, callVars
<1>4. ASSUME NEW t \in Threads, Select(t) PROVE TypeOK'
  BY <1>0, <1>2, <1>4 DEF Select, TypeOK, clientVars, session, callVars
<1>5. ASSUME NEW t \in Threads, Use(t) PROVE TypeOK'
  BY <1>0, <1>5 DEF Use, TypeOK, clientVars, callVars
<1>6. ASSUME NEW t \in Threads, RefuseWrite(t) PROVE TypeOK'
  BY <1>0, <1>2, <1>6 DEF RefuseWrite, TypeOK
<1>7. ASSUME NEW t \in Threads, SkipSchema(t) \/ ReadSchema(t) \/ Build(t) PROVE TypeOK'
  BY <1>0, <1>7 DEF SkipSchema, ReadSchema, Build, TypeOK, clientVars, session, callVars
<1>8. ASSUME NEW t \in Threads, Fetch(t) PROVE TypeOK'
  BY <1>0, <1>2, <1>8 DEF Fetch, TypeOK
<1>9. ASSUME NEW t \in Threads, Write(t) PROVE TypeOK'
  <2>1. (IF target[t] = NoName THEN current ELSE target[t]) \in Databases
    BY <1>0 DEF TypeOK
  <2> QED
    BY <1>0, <1>2, <1>9, <2>1 DEF Write, TypeOK
<1>10. ASSUME NEW t \in Threads, Fail(t) PROVE TypeOK'
  BY <1>0, <1>2, <1>10 DEF Fail, TypeOK
<1>11. ASSUME NEW c \in Clients, Close(c) PROVE TypeOK'
  BY <1>0, <1>11 DEF Close, TypeOK, callVars
<1>12. CASE UNCHANGED vars
  BY <1>0, <1>12 DEF TypeOK, vars
<1>13. ASSUME NEW t \in Threads, Translate(t) PROVE TypeOK'
  <2>1. Attached(job[t].db) \in Databases \cup {NoName}
    BY <1>0 DEF TypeOK, Attached
  <2> QED
    BY <1>0, <1>13, <2>1 DEF Translate, TypeOK, clientVars, session
<1>14. ASSUME NEW t \in Threads, Attach(t) \/ Detach(t) PROVE TypeOK'
  <2>1. job[t].arg \in Databases
    BY <1>0, JobType DEF TypeOK
  <2> QED
    BY <1>0, <1>2, <1>14, <2>1 DEF Attach, Detach, TypeOK
<1> QED
  BY <1>1, <1>3, <1>4, <1>5, <1>6, <1>7, <1>8, <1>9, <1>10, <1>11, <1>12, <1>13, <1>14
     DEF Next, Request, AllIdle

-----------------------------------------------------------------------------
\* Who changes a request's place and what else it has: its own thread only.
Untouched(u) == /\ pc'[u] = pc[u] /\ job'[u] = job[u]
                /\ schemaOf'[u] = schemaOf[u] /\ target'[u] = target[u]

\* A step of the thread t leaves every other request where it is, and keeps its
\* job, unless it begins or ends.
LEMMA OnlyOne ==
    ASSUME TypeOK, NEW t \in Threads, Request(t)
    PROVE  /\ users' = users
           /\ \A u \in Threads \ {t} : Untouched(u)
           /\ ~Begin(t) => job' = job \/ pc'[t] = "idle"
<1> USE DEF Untouched, TypeOK, Goto, session, clientVars, callVars
<1>1. CASE Begin(t)
  BY <1>1 DEF Begin
<1>2. ASSUME NEW here, NEW o, End(t, here, o)
      PROVE  users' = users /\ pc'[t] = "idle" /\ \A u \in Threads \ {t} : Untouched(u)
  BY <1>2 DEF End
<1>3. CASE CheckOpen(t) \/ Select(t)
  BY <1>2, <1>3 DEF CheckOpen, Select
<1>4. CASE RefuseWrite(t) \/ Fetch(t) \/ Write(t) \/ Attach(t) \/ Detach(t) \/ Fail(t)
  BY <1>2, <1>4 DEF RefuseWrite, Fetch, Write, Attach, Detach, Fail
<1>5. CASE Use(t)
  BY <1>5 DEF Use
<1>6. CASE SkipSchema(t) \/ ReadSchema(t) \/ Build(t) \/ Translate(t)
  BY <1>6 DEF SkipSchema, ReadSchema, Build, Translate
<1> QED
  BY <1>1, <1>3, <1>4, <1>5, <1>6 DEF Request

LEMMA LockStep == IInv /\ [Next]_vars => LockInv'
<1> SUFFICES ASSUME IInv, [Next]_vars PROVE LockInv'
  OBVIOUS
<1> USE NamesAssumption DEF Goto, LockInv
<1>0. TypeOK /\ LockInv
  BY DEF IInv
<1>1. ASSUME NEW t \in Threads, Begin(t) PROVE LockInv'
  <2>1. PICK j \in Jobs : /\ j.client \in users /\ lock[j.client] = Nobody
                         /\ job' = [job EXCEPT ![t] = j]
                         /\ lock' = [lock EXCEPT ![j.client] = t]
    BY <1>1 DEF Begin
  <2>2. j.client \in Clients
    BY JobType
  <2> QED
    BY <1>0, <1>1, <2>1, <2>2 DEF Begin, TypeOK, session
<1>2. ASSUME NEW t \in Threads, NEW here, NEW o, End(t, here, o), pc[t] # "idle" PROVE LockInv'
  <2>1. job[t].client \in Clients
    BY <1>0, JobType DEF TypeOK
  <2>2. \A u \in Threads \ {t} : pc[u] # "idle" => job[u].client # job[t].client
    BY <1>0, <1>2, OnePerClient
  <2> QED
    BY <1>0, <1>2, <2>1, <2>2 DEF End, TypeOK, session
<1>3. ASSUME NEW t \in Threads, NEW here, NEW there,
             Goto(t, here, there), here # "idle", UNCHANGED <<lock, job, users>>
      PROVE LockInv'
  BY <1>0, <1>3 DEF TypeOK
<1>4. ASSUME NEW t \in Threads, CheckOpen(t) \/ Select(t) PROVE LockInv'
  BY <1>2, <1>3, <1>4 DEF CheckOpen, Select, End, clientVars, session, callVars
<1>5. ASSUME NEW t \in Threads,
             RefuseWrite(t) \/ Fetch(t) \/ Write(t) \/ Attach(t) \/ Detach(t) \/ Fail(t)
      PROVE LockInv'
  BY <1>2, <1>5 DEF RefuseWrite, Fetch, Write, Attach, Detach, Fail, End
<1>6. ASSUME NEW t \in Threads,
             Use(t) \/ SkipSchema(t) \/ ReadSchema(t) \/ Build(t) \/ Translate(t)
      PROVE LockInv'
  BY <1>3, <1>6 DEF Use, SkipSchema, ReadSchema, Build, Translate, clientVars, session, callVars
<1>7. ASSUME NEW c \in Clients, Close(c) PROVE LockInv'
  BY <1>0, <1>7 DEF Close, callVars
<1>8. CASE UNCHANGED vars
  BY <1>0, <1>8 DEF vars
<1> QED
  BY <1>1, <1>4, <1>5, <1>6, <1>7, <1>8 DEF Next, Request, AllIdle

\* Closed clients have no request on the connection: close() takes the lock,
\* and a request looks again once it has it.
LEMMA ClosedStep == IInv /\ [Next]_vars => ClosedIsFinal'
<1> SUFFICES ASSUME IInv, [Next]_vars PROVE ClosedIsFinal'
  OBVIOUS
<1> USE NamesAssumption DEF ClosedIsFinal
<1>0. TypeOK /\ LockInv /\ ClosedIsFinal
  BY DEF IInv
<1>1. ASSUME NEW t \in Threads, Request(t) PROVE ClosedIsFinal'
  <2>1. closed' = closed
    BY <1>1 DEF Request, Begin, CheckOpen, Select, Use, RefuseWrite, SkipSchema, ReadSchema, Build,
                Fetch, Translate, Write, Attach, Detach, Fail, End, clientVars
  <2>2. \A u \in Threads \ {t} : Untouched(u)
    BY <1>0, <1>1, OnlyOne
  <2>3. closed'[job'[t].client] => pc'[t] \in {"idle", "locked"}
    <3>1. CASE Begin(t)
      BY <1>0, <3>1 DEF Begin, Goto, TypeOK
    <3>2. CASE ~Begin(t)
      <4>1. job' = job \/ pc'[t] = "idle"
        BY <1>0, <1>1, <3>2, OnlyOne
      <4>2. ASSUME closed[job[t].client] PROVE pc'[t] \in {"idle", "locked"}
        <5>1. pc[t] \in {"idle", "locked"}
          BY <1>0, <4>2
        <5> QED
          BY <1>0, <1>1, <3>2, <4>2, <5>1
             DEF Request, CheckOpen, Select, Use, RefuseWrite, SkipSchema, ReadSchema, Build,
                 Fetch, Translate, Write, Attach, Detach, Fail, End, Goto, TypeOK
      <4> QED
        BY <2>1, <4>1, <4>2
    <3> QED
      BY <3>1, <3>2
  <2> QED
    BY <1>0, <2>1, <2>2, <2>3 DEF Untouched
<1>2. ASSUME NEW c \in Clients, Close(c) PROVE ClosedIsFinal'
  BY <1>0, <1>2 DEF Close, LockInv, TypeOK, callVars
<1>3. CASE UNCHANGED vars
  BY <1>0, <1>3 DEF vars
<1> QED
  BY <1>1, <1>2, <1>3 DEF Next, AllIdle

LEMMA PointStep == IInv /\ [Next]_vars => PointInv'
<1> SUFFICES ASSUME IInv, [Next]_vars PROVE PointInv'
  OBVIOUS
<1>0. TypeOK /\ PointInv
  BY DEF IInv
<1>1. ASSUME NEW t \in Threads, Request(t) PROVE PointInv'
  <2> DEFINE P(u) == /\ pc[u] \in {"schema", "built"} => Permitted(job[u])
                     /\ pc[u] = "built" /\ job[u].op = "write" /\ steady[u]
                            => target[u] = job[u].db
  <2>1. ASSUME NEW u \in Threads \ {t} PROVE P(u)'
    <3>1. Untouched(u)
      BY <1>0, <1>1, OnlyOne
    <3>2. pc[u] # "idle" /\ steady'[u] => steady[u]
      BY Remembers
    <3> QED
      BY <1>0, <3>1, <3>2 DEF PointInv, Untouched, Permitted
  <2>2. P(t)'
    <3>1. CASE Begin(t)
      BY <1>0, <3>1 DEF Begin, Goto, TypeOK
    <3>2. CASE pc'[t] \in {"idle", "locked", "select", "use", "selected"}
      BY <3>2
    <3>3. CASE SkipSchema(t) \/ ReadSchema(t)
      BY <1>0, <3>3 DEF SkipSchema, ReadSchema, Goto, TypeOK, Permitted, Changes, Lifecycle,
                          callVars, session
    <3>4. CASE Build(t)
      BY <1>0, <3>4, Remembers DEF Build, Goto, TypeOK, PointInv, Permitted, callVars
    <3>5. CASE Translate(t)
      <4>1. steady'[t] => job[t].db \in attached
        BY <1>0, <3>5, Remembers DEF Translate, session
      <4> QED
        BY <1>0, <3>5, <4>1 DEF Translate, Goto, TypeOK, PointInv, Permitted, Attached
    <3> QED
      BY <1>0, <1>1, <3>1, <3>2, <3>3, <3>4, <3>5
         DEF Request, CheckOpen, Select, Use, RefuseWrite, Fetch, Write, Attach, Detach, Fail,
             End, Goto, TypeOK
  <2> QED
    BY <2>1, <2>2 DEF PointInv
<1>2. ASSUME NEW c \in Clients, Close(c) PROVE PointInv'
  BY <1>0, <1>2, Remembers DEF Close, callVars, PointInv, Permitted
<1>3. CASE UNCHANGED vars
  BY <1>0, <1>3 DEF vars, PointInv, Permitted
<1> QED
  BY <1>1, <1>2, <1>3 DEF Next, AllIdle

\* The connection of a request that is alone on it moves only when the request
\* itself moves it: any other would hold the same lock.
LEMMA CurrentStep == IInv /\ [Next]_vars => CurrentInv'
<1> SUFFICES ASSUME IInv, [Next]_vars PROVE CurrentInv'
  OBVIOUS
<1>0. TypeOK /\ LockInv /\ CurrentInv
  BY DEF IInv
<1> DEFINE Selected(u) ==
             pc[u] \in {"selected", "schema", "built"} /\ steady[u] => current = job[u].db
           Read(u) ==
             pc[u] \in {"schema", "built"} /\ job[u].op = "query" => schemaOf[u] = current
<1>1. ASSUME NEW t \in Threads, Request(t) PROVE CurrentInv'
  <2>1. users' = users
    BY <1>0, <1>1, OnlyOne
  <2>2. ASSUME NEW u \in Threads \ {t}, Alone(u)' PROVE Selected(u)' /\ Read(u)'
    <3>1. Untouched(u)
      BY <1>0, <1>1, OnlyOne
    <3>2. Alone(u)
      BY <2>1, <2>2, <3>1 DEF Untouched, Alone
    <3>3. CASE pc[u] = "idle"
      BY <3>1, <3>3 DEF Untouched
    <3>4. CASE pc[u] # "idle"
      <4>1. pc[t] = "idle"
        BY <1>0, <3>2, <3>4, AloneIsOnly
      <4>2. Begin(t)
        BY <1>1, <4>1 DEF Request, CheckOpen, Select, Use, RefuseWrite, SkipSchema, ReadSchema,
              Build, Fetch, Translate, Write, Attach, Detach, Fail, End, Goto
      <4>3. current' = current
        BY <4>2 DEF Begin, session
      <4>4. steady'[u] => steady[u]
        BY <3>4, Remembers
      <4> QED
        BY <1>0, <3>1, <3>2, <4>3, <4>4 DEF Untouched, CurrentInv
    <3> QED
      BY <3>3, <3>4
  <2>3. ASSUME Alone(t)' PROVE Selected(t)' /\ Read(t)'
    <3>1. CASE pc'[t] \in {"idle", "locked", "select", "use"}
      BY <3>1
    <3>2. CASE pc'[t] \notin {"idle", "locked", "select", "use"}
      <4>1. ~Begin(t)
        BY <1>0, <3>2 DEF Begin, Goto, TypeOK
      <4>2. job' = job /\ Alone(t)
        BY <1>0, <1>1, <2>1, <2>3, <3>2, <4>1, OnlyOne DEF Alone
      <4>3. Selected(t) /\ Read(t)
        BY <1>0, <4>2 DEF CurrentInv
      <4>0. steady'[t] => steady[t] /\ job[t].db \in attached'
        <5>1. pc[t] # "idle"
          BY <1>1, <4>1 DEF Request, CheckOpen, Select, Use, RefuseWrite, SkipSchema, ReadSchema,
                Build, Fetch, Translate, Write, Attach, Detach, Fail, End, Goto
        <5> QED
          BY <4>2, <5>1, Remembers
      <4>4. CASE Select(t)
        BY <1>0, <3>2, <4>0, <4>2, <4>4, NamesAssumption
           DEF Select, Attached, End, Goto, TypeOK, session
      <4>5. CASE Use(t)
        BY <1>0, <4>2, <4>5 DEF Use, Goto, TypeOK
      <4>6. CASE SkipSchema(t)
        BY <1>0, <4>0, <4>2, <4>3, <4>6 DEF SkipSchema, Goto, TypeOK, session, callVars
      <4>7. CASE ReadSchema(t)
        BY <1>0, <4>0, <4>2, <4>3, <4>7 DEF ReadSchema, Goto, TypeOK, session, callVars
      <4>9. CASE Translate(t)
        BY <1>0, <4>0, <4>2, <4>3, <4>9 DEF Translate, Goto, TypeOK, session
      <4>8. CASE Build(t)
        BY <1>0, <4>0, <4>2, <4>3, <4>8 DEF Build, Goto, TypeOK, session, callVars
      <4> QED
        BY <1>0, <1>1, <3>2, <4>1, <4>4, <4>5, <4>6, <4>7, <4>8, <4>9
           DEF Request, CheckOpen, RefuseWrite, Fetch, Write, Attach, Detach, Fail, End, Goto, TypeOK
    <3> QED
      BY <3>1, <3>2
  <2> QED
    BY <2>2, <2>3 DEF CurrentInv
<1>2. ASSUME NEW c \in Clients, Close(c) PROVE CurrentInv'
  BY <1>0, <1>2, Remembers DEF Close, CurrentInv, Alone, callVars
<1>3. CASE UNCHANGED vars
  BY <1>0, <1>3 DEF vars, CurrentInv, Alone
<1> QED
  BY <1>1, <1>2, <1>3 DEF Next, AllIdle

LEMMA Invariance == Spec => []IInv
<1>1. IInv /\ [Next]_vars => IInv'
  BY TypeStep, LockStep, PointStep, SteadyStep, CurrentStep, ClosedStep DEF IInv
<1> QED
  BY <1>1, Initially, PTL DEF Spec

-----------------------------------------------------------------------------
(* The client's promises. *)

\* The state of threads, clients and the connection is well typed, always.
THEOREM TypeCorrect == Spec => []TypeOK
<1>1. IInv => TypeOK
  BY DEF IInv
<1> QED
  BY <1>1, Invariance, PTL

\* close() is final: no request of a closed client is on the connection.
THEOREM CloseIsFinal == Spec => []ClosedIsFinal
<1>1. IInv => ClosedIsFinal
  BY DEF IInv
<1> QED
  BY <1>1, Invariance, PTL

\* Which steps read or change a database.
LEMMA TouchesWhat ==
    ASSUME IInv, [Next]_vars, NEW t \in Threads, Touches(t)
    PROVE  Fetch(t) \/ Write(t) \/ Attach(t) \/ Detach(t)
<1>0. TypeOK
  BY DEF IInv
<1>1. ASSUME NEW u \in Threads, Request(u) PROVE Fetch(t) \/ Write(t) \/ Attach(t) \/ Detach(t)
  BY <1>0, <1>1 DEF Touches, Request, Begin, CheckOpen, Select, Use, RefuseWrite, SkipSchema,
        ReadSchema, Build, Fetch, Translate, Write, Attach, Detach, Fail, TypeOK
<1> QED
  BY <1>1 DEF Next, Close, AllIdle, vars, Touches

\* A request that names a database which stays attached is answered from it
\* when it is alone on the connection; its writes land in it even when it is not.
THEOREM NamedIsAnswered == Spec => AnsweredFromNamed
<1> DEFINE A(t) == /\ Touches(t) /\ steady[t] /\ job[t].op \notin Lifecycle
                   /\ Alone(t) \/ job[t].op = "write"
                   => from'[t] = job[t].db
<1>1. ASSUME IInv, [Next]_vars, NEW t \in Threads PROVE A(t)
  <2> SUFFICES ASSUME Touches(t), steady[t], job[t].op \notin Lifecycle,
                      Alone(t) \/ job[t].op = "write"
               PROVE  from'[t] = job[t].db
    OBVIOUS
  <2>0. TypeOK /\ PointInv /\ SteadyInv /\ CurrentInv
    BY <1>1 DEF IInv
  <2>1. CASE Fetch(t)
    <3>1. pc[t] = "built" /\ from'[t] = current
      BY <2>0, <2>1 DEF Fetch, End, Goto, TypeOK
    <3>2. job[t].op # "write"
      BY <2>1 DEF Fetch
    <3> QED
      BY <2>0, <3>1, <3>2 DEF CurrentInv
  <2>2. CASE Write(t)
    <3>1. pc[t] = "built" /\ job[t].op = "write"
      BY <2>2 DEF Write, End, Goto
    <3>2. target[t] = job[t].db /\ job[t].db \in Databases
      BY <2>0, <3>1 DEF PointInv, SteadyInv, TypeOK
    <3> QED
      BY <2>0, <2>2, <3>2, NamesAssumption DEF Write, TypeOK
  <2>3. CASE Attach(t) \/ Detach(t)
    BY <2>3 DEF Attach, Detach, Lifecycle
  <2> QED
    BY <1>1, <2>1, <2>2, <2>3, TouchesWhat
<1>2. IInv /\ [Next]_vars => \A t \in Threads : A(t)
  BY <1>1
<1>3. ([][\A t \in Threads : A(t)]_vars) => AnsweredFromNamed
  BY DEF AnsweredFromNamed
<1> QED
  BY <1>2, <1>3, Invariance, PTL DEF Spec

\* A query runs in the database whose tables it was translated against.
THEOREM SchemaStaysCurrent == Spec => SchemaIsCurrent
<1> DEFINE A(t) == Touches(t) /\ Alone(t) /\ job[t].op = "query" => schemaOf[t] = from'[t]
<1>1. ASSUME IInv, [Next]_vars, NEW t \in Threads PROVE A(t)
  <2>0. TypeOK /\ CurrentInv
    BY <1>1 DEF IInv
  <2>1. CASE Fetch(t)
    BY <2>0, <2>1 DEF Fetch, End, Goto, TypeOK, CurrentInv
  <2>2. CASE Write(t) \/ Attach(t) \/ Detach(t)
    BY <2>2 DEF Write, Attach, Detach
  <2> QED
    BY <1>1, <2>1, <2>2, TouchesWhat
<1>2. IInv /\ [Next]_vars => \A t \in Threads : A(t)
  BY <1>1
<1>3. ([][\A t \in Threads : A(t)]_vars) => SchemaIsCurrent
  BY DEF SchemaIsCurrent
<1> QED
  BY <1>2, <1>3, Invariance, PTL DEF Spec

\* A write, an attach and a detach are made by a client that may write, for a
\* request that may.
THEOREM WritesArePermitted == Spec => OnlyPermittedWrites
<1> DEFINE A(t) == Touches(t) /\ job[t].op \in Changes \cup {"hidden write"}
                   => job[t].client \in Writers /\ ~job[t].readonly
<1>1. ASSUME IInv, [Next]_vars, NEW t \in Threads PROVE A(t)
  <2> SUFFICES ASSUME Touches(t), job[t].op \in Changes \cup {"hidden write"}
               PROVE  job[t].client \in Writers /\ ~job[t].readonly
    OBVIOUS
  <2>0. PointInv
    BY <1>1 DEF IInv
  <2>1. pc[t] \in {"schema", "built"}
    BY <1>1, TouchesWhat DEF Fetch, Write, Attach, Detach, End, Goto
  <2>2. Permitted(job[t])
    BY <2>0, <2>1 DEF PointInv
  <2> QED
    BY <2>2 DEF Permitted
<1>2. IInv /\ [Next]_vars => \A t \in Threads : A(t)
  BY <1>1
<1>3. ([][\A t \in Threads : A(t)]_vars) => OnlyPermittedWrites
  BY DEF OnlyPermittedWrites
<1> QED
  BY <1>2, <1>3, Invariance, PTL DEF Spec
=============================================================================
