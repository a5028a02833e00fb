---------------------------- MODULE ServerProofs ----------------------------
(***************************************************************************)
(* Proofs about the REST server, for any number of requests and databases: *)
(* what a request checked under the lock still holds when its statement    *)
(* runs, because only the holder of the lock attaches, detaches or writes. *)
(***************************************************************************)
EXTENDS Server, TLAPS

\* Between Acquire and Respond a request holds the lock.
Inside == {"running", "translated", "executed", "failed"}
LockInv == \A r \in Requests : pc[r] \in Inside => lock = r

\* A translated request's database is attached, and so is the startup one.
AttachedInv ==
    /\ Start \in attached
    /\ \A r \in Requests : pc[r] = "translated" => req[r].db \in attached \cup {Default}

\* A write that came past a gate was let through by it.
GateInv ==
    \A r \in Requests :
        /\ pc[r] \in {"checked", "running", "translated"} =>
               ~(req[r].readonly /\ IsWriteCommand(req[r]))
        /\ pc[r] = "translated" /\ IsWriteCommand(req[r]) => allowWrite

IInv == TypeOK /\ LockInv /\ AttachedInv /\ GateInv

-----------------------------------------------------------------------------
LEMMA KindType ==
    ASSUME NEW k \in Kinds
    PROVE  /\ k.db \in Databases \cup {Default} /\ k.op \in Ops
           /\ k.arg \in Databases /\ k.readonly \in BOOLEAN
           /\ k.op # "query" => k.reached
BY DEF Kinds

LEMMA BlankType == Blank \in Kinds
BY StartAssumption DEF Blank, Kinds, Ops

LEMMA TargetType == ASSUME NEW k \in Kinds PROVE Target(k) \in Databases
BY KindType, StartAssumption DEF Target

LEMMA Initially == Init => IInv
<1> SUFFICES ASSUME Init PROVE IInv
  OBVIOUS
<1>1. TypeOK
  BY BlankType, StartAssumption, WriteAssumption DEF Init, TypeOK, Points
<1>2. LockInv /\ AttachedInv /\ GateInv
  BY DEF Init, LockInv, AttachedInv, GateInv, Inside
<1> QED
  BY <1>1, <1>2 DEF IInv

-----------------------------------------------------------------------------
LEMMA TypeStep == TypeOK /\ [Next]_vars => TypeOK'
<1> SUFFICES ASSUME TypeOK, [Next]_vars PROVE TypeOK'
  OBVIOUS
<1> USE DEF TypeOK, Goto, Points, engine
<1>1. ASSUME NEW r \in Requests, Receive(r) PROVE TypeOK'
  BY <1>1 DEF Receive
<1>2. ASSUME NEW r \in Requests, NEW p, NEW s \in {400, 403, 404}, Refuse(r, p, s) PROVE TypeOK'
  BY <1>2 DEF Refuse
<1>3. ASSUME NEW r \in Requests, RefuseMalformed(r) \/ RefuseOption(r) \/ RefuseReadOnly(r)
      PROVE TypeOK'
  BY <1>2, <1>3 DEF RefuseMalformed, RefuseOption, RefuseReadOnly
<1>4. ASSUME NEW r \in Requests, CheckServed(r) PROVE TypeOK'
  BY <1>4 DEF CheckServed
<1>5. ASSUME NEW r \in Requests, PassOptions(r) \/ Acquire(r) PROVE TypeOK'
  BY <1>5 DEF PassOptions, Acquire
<1>6. ASSUME NEW r \in Requests, DatabaseGone(r) \/ GiveUp(r) \/ Overrun(r) PROVE TypeOK'
  BY <1>6 DEF DatabaseGone, GiveUp, Overrun
<1>7. ASSUME NEW r \in Requests, Translate(r) PROVE TypeOK'
  BY <1>7 DEF Translate
<1>8. ASSUME NEW r \in Requests, Query(r) \/ ShowTables(r) PROVE TypeOK'
  BY <1>8, TargetType, StartAssumption DEF Query, ShowTables
<1>9. ASSUME NEW r \in Requests, Write(r) PROVE TypeOK'
  <2>1. Target(req[r]) \in Databases
    BY TargetType
  <2>2. writes' \in [Databases -> 0..MaxWrites]
    BY <1>9, <2>1, WriteAssumption DEF Write
  <2> QED
    BY <1>9, <2>1, <2>2 DEF Write
<1>10. ASSUME NEW r \in Requests, Attach(r) \/ Detach(r) PROVE TypeOK'
  BY <1>10, KindType DEF Attach, Detach
<1>11. ASSUME NEW r \in Requests, Respond(r) PROVE TypeOK'
  BY <1>11 DEF Respond
<1>12. CASE UNCHANGED vars
  BY <1>12 DEF vars
<1> QED
  BY <1>1, <1>3, <1>4, <1>5, <1>6, <1>7, <1>8, <1>9, <1>10, <1>11, <1>12
     DEF Next, AllSent, Handler, Run

\* A step of a request leaves the others where they are.
LEMMA OthersStay ==
    ASSUME TypeOK, NEW r \in Requests, Handler(r) \/ Run(r), NEW s \in Requests \ {r}
    PROVE  pc'[s] = pc[s] /\ req'[s] = req[s]
BY DEF TypeOK, Goto, Handler, Run, Receive, Refuse, RefuseMalformed, CheckServed, RefuseOption,
       RefuseReadOnly, PassOptions, Acquire, DatabaseGone, Translate, GiveUp, Overrun, Query,
       ShowTables, Write, Attach, Detach, Respond

LEMMA LockStep == IInv /\ [Next]_vars => LockInv'
<1> SUFFICES ASSUME IInv, [Next]_vars PROVE LockInv'
  OBVIOUS
<1>0. TypeOK /\ LockInv
  BY DEF IInv
<1> USE NobodyAssumption DEF LockInv, Inside, Goto, TypeOK
<1>1. ASSUME NEW r \in Requests, Handler(r) PROVE LockInv'
  BY <1>0, <1>1 DEF Handler, Receive, Refuse, RefuseMalformed, CheckServed, RefuseOption,
                    RefuseReadOnly, PassOptions
<1>2. ASSUME NEW r \in Requests, Acquire(r) PROVE LockInv'
  BY <1>0, <1>2 DEF Acquire
<1>3. ASSUME NEW r \in Requests, Respond(r) PROVE LockInv'
  BY <1>0, <1>3 DEF Respond
<1>4. ASSUME NEW r \in Requests, Run(r), ~Acquire(r), ~Respond(r) PROVE LockInv'
  BY <1>0, <1>4 DEF Run, DatabaseGone, Translate, GiveUp, Overrun, Query, ShowTables, Write,
                    Attach, Detach
<1>5. CASE UNCHANGED vars
  BY <1>0, <1>5 DEF vars
<1> QED
  BY <1>1, <1>2, <1>3, <1>4, <1>5 DEF Next, AllSent

\* What a request holds is what it checked: the one that detaches is the one
\* that holds the lock, so none other is translated.
LEMMA AttachedStep == IInv /\ [Next]_vars => AttachedInv'
<1> SUFFICES ASSUME IInv, [Next]_vars PROVE AttachedInv'
  OBVIOUS
<1>0. TypeOK /\ LockInv /\ AttachedInv
  BY DEF IInv
<1>1. ASSUME NEW r \in Requests, Handler(r) \/ Run(r) PROVE AttachedInv'
  <2>1. CASE Detach(r)
    <3>1. \A s \in Requests : pc'[s] # "translated"
      BY <1>0, <2>1 DEF Detach, LockInv, Inside, Goto, TypeOK
    <3> QED
      BY <1>0, <2>1, <3>1 DEF Detach, AttachedInv
  <2>2. CASE Translate(r)
    BY <1>0, <2>2 DEF Translate, AttachedInv, Goto, TypeOK, engine
  <2>3. CASE ~Detach(r) /\ ~Translate(r)
    <3>1. attached \subseteq attached'
      BY <1>1, <2>3 DEF Handler, Run, Receive, Refuse, RefuseMalformed, CheckServed, RefuseOption,
            RefuseReadOnly, PassOptions, Acquire, DatabaseGone, GiveUp, Overrun, Query,
            ShowTables, Write, Attach, Respond, engine
    <3>2. pc'[r] # "translated"
      BY <1>0, <1>1, <2>3 DEF Handler, Run, Receive, Refuse, RefuseMalformed, CheckServed,
            RefuseOption, RefuseReadOnly, PassOptions, Acquire, DatabaseGone, GiveUp, Overrun,
            Query, ShowTables, Write, Attach, Respond, Goto, TypeOK
    <3>3. \A s \in Requests \ {r} : pc'[s] = pc[s] /\ req'[s] = req[s]
      BY <1>0, <1>1, OthersStay
    <3> QED
      BY <1>0, <3>1, <3>2, <3>3 DEF AttachedInv
  <2> QED
    BY <2>1, <2>2, <2>3
<1>2. CASE UNCHANGED vars
  BY <1>0, <1>2 DEF vars, AttachedInv
<1> QED
  BY <1>1, <1>2 DEF Next, AllSent

LEMMA GateStep == IInv /\ [Next]_vars => GateInv'
<1> SUFFICES ASSUME IInv, [Next]_vars PROVE GateInv'
  OBVIOUS
<1>0. TypeOK /\ GateInv
  BY DEF IInv
<1> DEFINE G(s) == /\ pc[s] \in {"checked", "running", "translated"} =>
                          ~(req[s].readonly /\ IsWriteCommand(req[s]))
                   /\ pc[s] = "translated" /\ IsWriteCommand(req[s]) => allowWrite
<1>1. ASSUME NEW r \in Requests, Handler(r) \/ Run(r) PROVE GateInv'
  <2>1. allowWrite' = allowWrite
    BY <1>1 DEF Handler, Run, Receive, Refuse, RefuseMalformed, CheckServed, RefuseOption,
          RefuseReadOnly, PassOptions, Acquire, DatabaseGone, Translate, GiveUp, Overrun, Query,
          ShowTables, Write, Attach, Detach, Respond, engine
  <2>2. \A s \in Requests \ {r} : G(s)'
    BY <1>0, <1>1, <2>1, OthersStay DEF GateInv, IsWriteCommand
  <2>3. G(r)'
    <3>1. CASE PassOptions(r)
      BY <1>0, <3>1 DEF PassOptions, Goto, TypeOK, IsWriteCommand
    <3>2. CASE Acquire(r)
      BY <1>0, <3>2 DEF Acquire, Goto, TypeOK, GateInv, IsWriteCommand
    <3>3. CASE Translate(r)
      BY <1>0, <2>1, <3>3 DEF Translate, Goto, TypeOK, GateInv, IsWriteCommand
    <3>4. CASE ~PassOptions(r) /\ ~Acquire(r) /\ ~Translate(r)
      <4>1. pc'[r] \notin {"checked", "running", "translated"}
        BY <1>0, <1>1, <3>4 DEF Handler, Run, Receive, Refuse, RefuseMalformed, CheckServed,
              RefuseOption, RefuseReadOnly, DatabaseGone, GiveUp, Overrun, Query, ShowTables,
              Write, Attach, Detach, Respond, Goto, TypeOK
      <4> QED
        BY <4>1
    <3> QED
      BY <3>1, <3>2, <3>3, <3>4
  <2> QED
    BY <2>2, <2>3 DEF GateInv
<1>2. CASE UNCHANGED vars
  BY <1>0, <1>2 DEF vars, GateInv, IsWriteCommand
<1> QED
  BY <1>1, <1>2 DEF Next, AllSent

LEMMA Invariance == Spec => []IInv
<1>1. IInv /\ [Next]_vars => IInv'
  BY TypeStep, LockStep, AttachedStep, GateStep DEF IInv
<1> QED
  BY <1>1, Initially, PTL DEF Spec

-----------------------------------------------------------------------------
\* The server's state is well typed, always; no write counter passes its bound.
THEOREM TypeCorrect == Spec => []TypeOK
<1>1. IInv => TypeOK
  BY DEF IInv
<1> QED
  BY <1>1, Invariance, PTL

\* A request reads and writes an attached database, whatever the others attach
\* and detach meanwhile, and the one it selected if its table is qualified.
THEOREM SelectedIsAnswered == Spec => AnsweredFromSelected
<1> DEFINE A(r) == from'[r] # from[r] /\ req[r].op \in {"query", "write"} =>
                       /\ from'[r] \in attached
                       /\ req[r].reached => req[r].db \in {from'[r], Default}
<1>1. ASSUME IInv, [Next]_vars, NEW r \in Requests PROVE A(r)
  <2> SUFFICES ASSUME from'[r] # from[r], req[r].op \in {"query", "write"}
               PROVE  /\ from'[r] \in attached
                      /\ req[r].reached => req[r].db \in {from'[r], Default}
    OBVIOUS
  <2>0. TypeOK /\ AttachedInv
    BY <1>1 DEF IInv
  <2>1. Query(r) \/ Write(r)
    BY <1>1, <2>0 DEF Next, AllSent, vars, Handler, Run, Receive, Refuse, RefuseMalformed,
          CheckServed, RefuseOption, RefuseReadOnly, PassOptions, Acquire, DatabaseGone,
          Translate, GiveUp, Overrun, Query, ShowTables, Write, Attach, Detach, Respond, TypeOK
  <2>2. /\ pc[r] = "translated"
        /\ from'[r] = IF req[r].reached THEN Target(req[r]) ELSE Start
    BY <2>0, <2>1, KindType DEF Query, Write, Goto, TypeOK
  <2> QED
    BY <2>0, <2>2 DEF AttachedInv, Target
<1>2. IInv /\ [Next]_vars => \A r \in Requests : A(r)
  BY <1>1
<1>3. ([][\A r \in Requests : A(r)]_vars) => AnsweredFromSelected
  BY DEF AnsweredFromSelected
<1> QED
  BY <1>2, <1>3, Invariance, PTL DEF Spec

\* What changes the databases is a permitted write.
THEOREM WritesArePermitted == Spec => OnlyPermittedWrites
<1> DEFINE A == engine' # engine =>
                    /\ allowWrite
                    /\ \A r \in Requests : pc'[r] = "executed" /\ pc[r] # "executed" =>
                           ~req[r].readonly
<1>1. ASSUME IInv, [Next]_vars PROVE A
  <2> SUFFICES ASSUME engine' # engine
               PROVE  /\ allowWrite
                      /\ \A r \in Requests : pc'[r] = "executed" /\ pc[r] # "executed" =>
                             ~req[r].readonly
    OBVIOUS
  <2>0. TypeOK /\ GateInv
    BY <1>1 DEF IInv
  <2>1. PICK s \in Requests : Write(s) \/ Attach(s) \/ Detach(s)
    BY <1>1 DEF Next, AllSent, vars, Handler, Run, Receive, Refuse, RefuseMalformed,
          CheckServed, RefuseOption, RefuseReadOnly, PassOptions, Acquire, DatabaseGone,
          Translate, GiveUp, Overrun, Query, ShowTables, Respond, engine
  <2>2. pc[s] = "translated" /\ IsWriteCommand(req[s])
    BY <2>1 DEF Write, Attach, Detach, Goto, IsWriteCommand
  <2>3. allowWrite /\ ~req[s].readonly
    BY <2>0, <2>2 DEF GateInv
  <2>4. \A r \in Requests \ {s} : pc'[r] = pc[r]
    BY <2>0, <2>1 DEF Write, Attach, Detach, Goto, TypeOK
  <2> QED
    BY <2>3, <2>4
<1>2. IInv /\ [Next]_vars => A
  BY <1>1
<1>3. ([][A]_vars) => OnlyPermittedWrites
  BY DEF OnlyPermittedWrites
<1> QED
  BY <1>2, <1>3, Invariance, PTL DEF Spec
=============================================================================
