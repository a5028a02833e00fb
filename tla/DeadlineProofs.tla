--------------------------- MODULE DeadlineProofs ---------------------------
(***************************************************************************)
(* Proofs about Deadline for every set of requests: its types, the two     *)
(* safety invariants of the shared connection, and that it implements      *)
(* RequestSpec.                                                            *)
(***************************************************************************)
EXTENDS Deadline, TLAPS

Inside == {"entering", "translating", "running", "exiting", "reporting", "releasing"}
Left   == {"reporting", "releasing", "ended"}

\* The lock is held by whoever is inside; the connection runs only what the
\* thread at "running" started.
LockInv ==
    /\ \A r \in Requests : pc[r] \in Inside => lock = r
    /\ \A r \in Requests : pc[r] = "running" => stmt = r
    /\ stmt # Nobody => pc[stmt] = "running"

\* How the threads of one request stand to one another.  The second conjunct is
\* the guard's doing: a watcher about to interrupt has not been told to stop.
GuardInv ==
    \A r \in Requests :
        /\ done[r] <=> pc[r] \in Left
        /\ watch[r] = "interrupting" => ~done[r]
        /\ watch[r] # "none" => pc[r] \notin {"arrived", "entering"}
        /\ watch[r] \in {"looping", "checking", "interrupting", "pausing"} => fired[r]
        /\ fired[r] => watch[r] # "none"

CutInv == cut => stmt # Nobody /\ fired[stmt]

\* A reported timeout was one.
ReportInv == \A r \in Requests : outcome[r] = "timeout" => fired[r]

IInv == TypeOK /\ LockInv /\ GuardInv /\ CutInv /\ ReportInv

-----------------------------------------------------------------------------
\* Every variable keeps its type in every step (the state of _Deadline and of
\* the server's lock), and the guard stays with the watcher that took it.
LEMMA TypeStep == IInv /\ [Next]_vars => TypeOK'
<1> SUFFICES ASSUME IInv, [Next]_vars PROVE TypeOK'
  OBVIOUS
<1> USE LimitedAssumption, StatementsAssumption DEF IInv, TypeOK, GuardInv, ThreadPoints, WatchPoints, Outcomes
<1>0. CASE UNCHANGED vars
  BY <1>0 DEF vars
<1>1. ASSUME NEW r \in Requests, Acquire(r) PROVE TypeOK'
  BY <1>1 DEF Acquire, Goto, connection
<1>2. ASSUME NEW r \in Requests, Enter(r) PROVE TypeOK'
  BY <1>2 DEF Enter, Goto, connection
<1>3. ASSUME NEW r \in Requests, StartStatement(r) PROVE TypeOK'
  <2>1. left[r] - 1 \in 0..Statements
    BY <1>3 DEF StartStatement
  <2>2. left' \in [Requests -> 0..Statements]
    BY <1>3, <2>1 DEF StartStatement
  <2> QED
    BY <1>3, <2>2 DEF StartStatement, Goto
<1>4. ASSUME NEW r \in Requests, FinishStatement(r) PROVE TypeOK'
  BY <1>4 DEF FinishStatement, Goto
<1>5. ASSUME NEW r \in Requests, FailStatement(r) PROVE TypeOK'
  BY <1>5 DEF FailStatement, Goto
<1>6. ASSUME NEW r \in Requests, EndBlock(r) PROVE TypeOK'
  BY <1>6 DEF EndBlock, Goto, connection
<1>7. ASSUME NEW r \in Requests, SetDone(r) PROVE TypeOK'
  BY <1>7 DEF SetDone, Goto, connection
<1>8. ASSUME NEW r \in Requests, Report(r) PROVE TypeOK'
  BY <1>8 DEF Report, Goto, connection
<1>9. ASSUME NEW r \in Requests, Release(r) PROVE TypeOK'
  BY <1>9 DEF Release, Goto, connection
<1>10. ASSUME NEW r \in Requests, WaitDone(r) PROVE TypeOK'
  BY <1>10 DEF WaitDone, WatchGoto, requestVars, connection
<1>11. ASSUME NEW r \in Requests, WaitExpires(r) PROVE TypeOK'
  BY <1>11 DEF WaitExpires, WatchGoto, requestVars, connection
<1>12. ASSUME NEW r \in Requests, Fire(r) PROVE TypeOK'
  BY <1>12 DEF Fire, WatchGoto, requestVars, connection
<1>13. ASSUME NEW r \in Requests, TakeGuard(r) PROVE TypeOK'
  BY <1>13 DEF TakeGuard, WatchGoto, requestVars, connection
<1>14. ASSUME NEW r \in Requests, CheckDone(r) PROVE TypeOK'
  BY <1>14 DEF CheckDone, WatchGoto, requestVars, connection
<1>15. ASSUME NEW r \in Requests, Interrupt(r) PROVE TypeOK'
  BY <1>15 DEF Interrupt, WatchGoto, requestVars
<1>16. ASSUME NEW r \in Requests, Pause(r) PROVE TypeOK'
  BY <1>16 DEF Pause, WatchGoto, requestVars, connection
<1> QED
  BY <1>0, <1>1, <1>2, <1>3, <1>4, <1>5, <1>6, <1>7, <1>8, <1>9, <1>10, <1>11, <1>12, <1>13, <1>14, <1>15, <1>16 DEF Next, AllEnded, Thread, Watcher

\* The lock, the threads inside the block and the running statement stay in step.
LEMMA LockStep == IInv /\ [Next]_vars => LockInv'
<1> SUFFICES ASSUME IInv, [Next]_vars PROVE LockInv'
  OBVIOUS
<1> USE NobodyAssumption DEF IInv, TypeOK, LockInv, GuardInv, CutInv, Inside, Left
<1>0. CASE UNCHANGED vars
  BY <1>0 DEF vars
<1>1. ASSUME NEW r \in Requests, Acquire(r) PROVE LockInv'
  BY <1>1 DEF Acquire, Goto, connection
<1>2. ASSUME NEW r \in Requests, Enter(r) PROVE LockInv'
  BY <1>2 DEF Enter, Goto, connection
<1>3. ASSUME NEW r \in Requests, StartStatement(r) PROVE LockInv'
  BY <1>3 DEF StartStatement, Goto
<1>4. ASSUME NEW r \in Requests, FinishStatement(r) PROVE LockInv'
  BY <1>4 DEF FinishStatement, Goto
<1>5. ASSUME NEW r \in Requests, FailStatement(r) PROVE LockInv'
  BY <1>5 DEF FailStatement, Goto
<1>6. ASSUME NEW r \in Requests, EndBlock(r) PROVE LockInv'
  BY <1>6 DEF EndBlock, Goto, connection
<1>7. ASSUME NEW r \in Requests, SetDone(r) PROVE LockInv'
  BY <1>7 DEF SetDone, Goto, connection
<1>8. ASSUME NEW r \in Requests, Report(r) PROVE LockInv'
  BY <1>8 DEF Report, Goto, connection
<1>9. ASSUME NEW r \in Requests, Release(r) PROVE LockInv'
  BY <1>9 DEF Release, Goto, connection
<1>10. ASSUME NEW r \in Requests, WaitDone(r) PROVE LockInv'
  BY <1>10 DEF WaitDone, WatchGoto, requestVars, connection
<1>11. ASSUME NEW r \in Requests, WaitExpires(r) PROVE LockInv'
  BY <1>11 DEF WaitExpires, WatchGoto, requestVars, connection
<1>12. ASSUME NEW r \in Requests, Fire(r) PROVE LockInv'
  BY <1>12 DEF Fire, WatchGoto, requestVars, connection
<1>13. ASSUME NEW r \in Requests, TakeGuard(r) PROVE LockInv'
  BY <1>13 DEF TakeGuard, WatchGoto, requestVars, connection
<1>14. ASSUME NEW r \in Requests, CheckDone(r) PROVE LockInv'
  BY <1>14 DEF CheckDone, WatchGoto, requestVars, connection
<1>15. ASSUME NEW r \in Requests, Interrupt(r) PROVE LockInv'
  BY <1>15 DEF Interrupt, WatchGoto, requestVars
<1>16. ASSUME NEW r \in Requests, Pause(r) PROVE LockInv'
  BY <1>16 DEF Pause, WatchGoto, requestVars, connection
<1> QED
  BY <1>0, <1>1, <1>2, <1>3, <1>4, <1>5, <1>6, <1>7, <1>8, <1>9, <1>10, <1>11, <1>12, <1>13, <1>14, <1>15, <1>16 DEF Next, AllEnded, Thread, Watcher

\* The event and the guard keep a watcher from interrupting after the exit.
LEMMA GuardStep == IInv /\ [Next]_vars => GuardInv'
<1> SUFFICES ASSUME IInv, [Next]_vars PROVE GuardInv'
  OBVIOUS
<1> USE NobodyAssumption DEF IInv, TypeOK, LockInv, GuardInv, CutInv, Inside, Left
<1>0. CASE UNCHANGED vars
  BY <1>0 DEF vars
<1>1. ASSUME NEW r \in Requests, Acquire(r) PROVE GuardInv'
  BY <1>1 DEF Acquire, Goto, connection
<1>2. ASSUME NEW r \in Requests, Enter(r) PROVE GuardInv'
  BY <1>2 DEF Enter, Goto, connection
<1>3. ASSUME NEW r \in Requests, StartStatement(r) PROVE GuardInv'
  BY <1>3 DEF StartStatement, Goto
<1>4. ASSUME NEW r \in Requests, FinishStatement(r) PROVE GuardInv'
  BY <1>4 DEF FinishStatement, Goto
<1>5. ASSUME NEW r \in Requests, FailStatement(r) PROVE GuardInv'
  BY <1>5 DEF FailStatement, Goto
<1>6. ASSUME NEW r \in Requests, EndBlock(r) PROVE GuardInv'
  BY <1>6 DEF EndBlock, Goto, connection
<1>7. ASSUME NEW r \in Requests, SetDone(r) PROVE GuardInv'
  BY <1>7 DEF SetDone, Goto, connection
<1>8. ASSUME NEW r \in Requests, Report(r) PROVE GuardInv'
  BY <1>8 DEF Report, Goto, connection
<1>9. ASSUME NEW r \in Requests, Release(r) PROVE GuardInv'
  BY <1>9 DEF Release, Goto, connection
<1>10. ASSUME NEW r \in Requests, WaitDone(r) PROVE GuardInv'
  BY <1>10 DEF WaitDone, WatchGoto, requestVars, connection
<1>11. ASSUME NEW r \in Requests, WaitExpires(r) PROVE GuardInv'
  BY <1>11 DEF WaitExpires, WatchGoto, requestVars, connection
<1>12. ASSUME NEW r \in Requests, Fire(r) PROVE GuardInv'
  BY <1>12 DEF Fire, WatchGoto, requestVars, connection
<1>13. ASSUME NEW r \in Requests, TakeGuard(r) PROVE GuardInv'
  BY <1>13 DEF TakeGuard, WatchGoto, requestVars, connection
<1>14. ASSUME NEW r \in Requests, CheckDone(r) PROVE GuardInv'
  BY <1>14 DEF CheckDone, WatchGoto, requestVars, connection
<1>15. ASSUME NEW r \in Requests, Interrupt(r) PROVE GuardInv'
  BY <1>15 DEF Interrupt, WatchGoto, requestVars
<1>16. ASSUME NEW r \in Requests, Pause(r) PROVE GuardInv'
  BY <1>16 DEF Pause, WatchGoto, requestVars, connection
<1> QED
  BY <1>0, <1>1, <1>2, <1>3, <1>4, <1>5, <1>6, <1>7, <1>8, <1>9, <1>10, <1>11, <1>12, <1>13, <1>14, <1>15, <1>16 DEF Next, AllEnded, Thread, Watcher

\* An interrupt finds the connection idle or running a statement of its own
\* request: the watcher's request is inside, so it holds the lock.
LEMMA CutStep == IInv /\ [Next]_vars => CutInv'
<1> SUFFICES ASSUME IInv, [Next]_vars PROVE CutInv'
  OBVIOUS
<1> USE NobodyAssumption DEF IInv, TypeOK, LockInv, GuardInv, CutInv, Inside, Left
<1>0. CASE UNCHANGED vars
  BY <1>0 DEF vars
<1>1. ASSUME NEW r \in Requests, Acquire(r) PROVE CutInv'
  BY <1>1 DEF Acquire, Goto, connection
<1>2. ASSUME NEW r \in Requests, Enter(r) PROVE CutInv'
  BY <1>2 DEF Enter, Goto, connection
<1>3. ASSUME NEW r \in Requests, StartStatement(r) PROVE CutInv'
  BY <1>3 DEF StartStatement, Goto
<1>4. ASSUME NEW r \in Requests, FinishStatement(r) PROVE CutInv'
  BY <1>4 DEF FinishStatement, Goto
<1>5. ASSUME NEW r \in Requests, FailStatement(r) PROVE CutInv'
  BY <1>5 DEF FailStatement, Goto
<1>6. ASSUME NEW r \in Requests, EndBlock(r) PROVE CutInv'
  BY <1>6 DEF EndBlock, Goto, connection
<1>7. ASSUME NEW r \in Requests, SetDone(r) PROVE CutInv'
  BY <1>7 DEF SetDone, Goto, connection
<1>8. ASSUME NEW r \in Requests, Report(r) PROVE CutInv'
  BY <1>8 DEF Report, Goto, connection
<1>9. ASSUME NEW r \in Requests, Release(r) PROVE CutInv'
  BY <1>9 DEF Release, Goto, connection
<1>10. ASSUME NEW r \in Requests, WaitDone(r) PROVE CutInv'
  BY <1>10 DEF WaitDone, WatchGoto, requestVars, connection
<1>11. ASSUME NEW r \in Requests, WaitExpires(r) PROVE CutInv'
  BY <1>11 DEF WaitExpires, WatchGoto, requestVars, connection
<1>12. ASSUME NEW r \in Requests, Fire(r) PROVE CutInv'
  BY <1>12 DEF Fire, WatchGoto, requestVars, connection
<1>13. ASSUME NEW r \in Requests, TakeGuard(r) PROVE CutInv'
  BY <1>13 DEF TakeGuard, WatchGoto, requestVars, connection
<1>14. ASSUME NEW r \in Requests, CheckDone(r) PROVE CutInv'
  BY <1>14 DEF CheckDone, WatchGoto, requestVars, connection
<1>15. ASSUME NEW r \in Requests, Interrupt(r) PROVE CutInv'
  <2>1. CASE stmt = Nobody
    BY <1>15, <2>1 DEF Interrupt
  <2>2. CASE stmt # Nobody
    <3>1. stmt \in Requests /\ pc[stmt] = "running" /\ lock = stmt
      BY <2>2
    <3>2. lock = r
      BY <1>15 DEF Interrupt, WatchGoto, ThreadPoints
    <3>3. fired[stmt]
      BY <1>15, <3>1, <3>2 DEF Interrupt, WatchGoto
    <3> QED
      BY <1>15, <2>2, <3>3 DEF Interrupt
  <2> QED
    BY <2>1, <2>2
<1>16. ASSUME NEW r \in Requests, Pause(r) PROVE CutInv'
  BY <1>16 DEF Pause, WatchGoto, requestVars, connection
<1> QED
  BY <1>0, <1>1, <1>2, <1>3, <1>4, <1>5, <1>6, <1>7, <1>8, <1>9, <1>10, <1>11, <1>12, <1>13, <1>14, <1>15, <1>16 DEF Next, AllEnded, Thread, Watcher

\* Only Report writes an outcome, and _fired is never taken back.
LEMMA ReportStep == IInv /\ [Next]_vars => ReportInv'
<1> SUFFICES ASSUME IInv, [Next]_vars PROVE ReportInv'
  OBVIOUS
<1> USE DEF IInv, TypeOK, ReportInv
<1>1. ASSUME NEW r \in Requests, Report(r) PROVE ReportInv'
  BY <1>1 DEF Report
<1>2. ASSUME NEW r \in Requests, Fire(r) PROVE ReportInv'
  BY <1>2 DEF Fire, requestVars
<1>3. CASE UNCHANGED <<outcome, fired>>
  BY <1>3
<1> QED
  BY <1>1, <1>2, <1>3
  DEF Next, AllEnded, Thread, Watcher, vars, requestVars, Acquire, Enter, StartStatement,
      FinishStatement, FailStatement, EndBlock, SetDone, Release, WaitDone, WaitExpires,
      TakeGuard, CheckDone, Interrupt, Pause

-----------------------------------------------------------------------------
\* The inductive invariant holds in every reachable state.
THEOREM Invariance == Spec => []IInv
<1>1. Init => IInv
  <2> SUFFICES ASSUME Init PROVE IInv
    OBVIOUS
  <2>1. TypeOK
    <3>1. Statements \in 0..Statements
      BY StatementsAssumption
    <3> QED
      BY <3>1 DEF Init, TypeOK, ThreadPoints, WatchPoints, Outcomes
  <2>2. LockInv /\ GuardInv /\ CutInv /\ ReportInv
    BY DEF Init, LockInv, GuardInv, CutInv, ReportInv, Inside, Left
  <2> QED
    BY <2>1, <2>2 DEF IInv
<1>2. IInv /\ [Next]_vars => IInv'
  BY TypeStep, LockStep, GuardStep, CutStep, ReportStep DEF IInv
<1> QED
  BY <1>1, <1>2, PTL DEF Spec

\* Type correctness.
THEOREM TypeCorrect == Spec => []TypeOK
<1>1. IInv => TypeOK
  BY DEF IInv
<1> QED
  BY <1>1, Invariance, PTL

\* No interrupt lands outside the request whose deadline passed: the promise of
\* _Deadline's docstring, for any number of requests on the connection.
THEOREM InterruptIsOwn == Spec => []OwnInterrupt
<1>1. IInv => OwnInterrupt
  <2> SUFFICES ASSUME IInv, cut PROVE stmt \in Limited /\ fired[stmt] /\ ~done[stmt]
    BY DEF OwnInterrupt
  <2> USE DEF IInv, TypeOK, LockInv, GuardInv, CutInv
  <2>1. stmt \in Requests /\ pc[stmt] = "running" /\ fired[stmt]
    OBVIOUS
  <2> QED
    BY <2>1 DEF Left
<1> QED
  BY <1>1, Invariance, PTL

\* One statement at a time, the lock holder's.
THEOREM StatementsSerialized == Spec => []OneStatement
<1>1. IInv => OneStatement
  BY DEF IInv, LockInv, OneStatement, Inside
<1> QED
  BY <1>1, Invariance, PTL

-----------------------------------------------------------------------------
\* The refinement.  What each step is to RequestSpec:
\*   Acquire begins, Fire passes the deadline unless the outcome is out,
\*   Interrupt cuts short, Report answers, Release leaves; the end or the start
\*   of a statement ends the cut, and every other step stutters.

LEMMA PromiseInit == Init => Promise!Init
  BY DEF Init, Promise!Init, phaseBar, lateBar

LEMMA PromiseStep == IInv /\ [Next]_vars => [Promise!Next]_(Promise!vars)
<1> SUFFICES ASSUME IInv, [Next]_vars PROVE [Promise!Next]_(Promise!vars)
  OBVIOUS
<1> USE NobodyAssumption DEF IInv, TypeOK, LockInv, GuardInv, CutInv, ReportInv, Inside, Left
<1>0. CASE UNCHANGED vars
  BY <1>0 DEF vars, Promise!vars, phaseBar, lateBar
<1>1. ASSUME NEW r \in Requests, Acquire(r)
      PROVE  Promise!Begin(r)
  BY <1>1 DEF Acquire, Goto, connection, Promise!Begin, phaseBar, lateBar
<1>2. ASSUME NEW r \in Requests, Enter(r) PROVE UNCHANGED Promise!vars
  BY <1>2 DEF Enter, Goto, connection, Promise!vars, phaseBar, lateBar
<1>3. ASSUME NEW r \in Requests, StartStatement(r) PROVE Promise!CutEnds
  BY <1>3 DEF StartStatement, Goto, Promise!CutEnds, phaseBar, lateBar
<1>4. ASSUME NEW r \in Requests, FinishStatement(r) PROVE Promise!CutEnds
  BY <1>4 DEF FinishStatement, Goto, Promise!CutEnds, phaseBar, lateBar
<1>5. ASSUME NEW r \in Requests, FailStatement(r) PROVE Promise!CutEnds
  BY <1>5 DEF FailStatement, Goto, Promise!CutEnds, phaseBar, lateBar
<1>6. ASSUME NEW r \in Requests, EndBlock(r) PROVE UNCHANGED Promise!vars
  BY <1>6 DEF EndBlock, Goto, connection, Promise!vars, phaseBar, lateBar
<1>7. ASSUME NEW r \in Requests, SetDone(r) PROVE UNCHANGED Promise!vars
  BY <1>7 DEF SetDone, Goto, connection, Promise!vars, phaseBar, lateBar
<1>8. ASSUME NEW r \in Requests, Report(r)
      PROVE  \E o \in {"timeout", "answer", "error"} : Promise!Answer(r, o)
  <2> DEFINE o == outcome'[r]
  <2> USE <1>8 DEF Report, Goto
  <2>1. pc[r] = "reporting" /\ pc' = [pc EXCEPT ![r] = "releasing"]
    OBVIOUS
  <2>2. outcome' = [outcome EXCEPT ![r] = o]
    OBVIOUS
  <2>3. fired' = fired
    OBVIOUS
  <2>4. o \in IF fired[r] THEN {"timeout"} ELSE {"answer", "error"}
    OBVIOUS
  <2> HIDE <1>8 DEF o, Report, Goto
  <2>5. ~cut
    BY <2>1
  <2>6. lateBar[r] = fired[r] /\ phaseBar[r] = "active"
    BY <2>1 DEF lateBar, phaseBar
  <2>7. phaseBar' = [phaseBar EXCEPT ![r] = "over"]
    BY <2>1 DEF phaseBar
  <2>8. lateBar' = lateBar
    BY <2>1, <2>2, <2>3, <2>4 DEF lateBar
  <2>9. lock' = lock /\ cut' = cut
    BY <1>8 DEF Report, connection
  <2>10. o \in {"timeout", "answer", "error"}
    BY <2>4
  <2> QED
    BY <2>2, <2>4, <2>5, <2>6, <2>7, <2>8, <2>9, <2>10 DEF Promise!Answer
<1>9. ASSUME NEW r \in Requests, Release(r)
      PROVE  Promise!Leave(r)
  BY <1>9 DEF Release, Goto, connection, Promise!Leave, phaseBar, lateBar
<1>10. ASSUME NEW r \in Requests, WaitDone(r) PROVE UNCHANGED Promise!vars
  BY <1>10 DEF WaitDone, WatchGoto, requestVars, connection, Promise!vars, phaseBar, lateBar
<1>11. ASSUME NEW r \in Requests, WaitExpires(r) PROVE UNCHANGED Promise!vars
  BY <1>11 DEF WaitExpires, WatchGoto, requestVars, connection, Promise!vars, phaseBar, lateBar
<1>12. ASSUME NEW r \in Requests, Fire(r)
      PROVE  Promise!DeadlinePasses(r) \/ UNCHANGED Promise!vars
  BY <1>12 DEF Fire, WatchGoto, requestVars, connection, Promise!DeadlinePasses, Promise!vars, phaseBar, lateBar
<1>13. ASSUME NEW r \in Requests, TakeGuard(r) PROVE UNCHANGED Promise!vars
  BY <1>13 DEF TakeGuard, WatchGoto, requestVars, connection, Promise!vars, phaseBar, lateBar
<1>14. ASSUME NEW r \in Requests, CheckDone(r) PROVE UNCHANGED Promise!vars
  BY <1>14 DEF CheckDone, WatchGoto, requestVars, connection, Promise!vars, phaseBar, lateBar
<1>15. ASSUME NEW r \in Requests, Interrupt(r)
      PROVE  Promise!CutShort(r) \/ UNCHANGED Promise!vars
  <2> USE <1>15 DEF Interrupt, WatchGoto, requestVars
  <2>1. phaseBar' = phaseBar /\ lateBar' = lateBar
    BY DEF phaseBar, lateBar
  <2>2. CASE stmt = Nobody
    BY <2>1, <2>2 DEF Promise!vars
  <2>3. CASE stmt # Nobody
    <3>1. lock = r /\ stmt = r
      BY <2>3 DEF ThreadPoints
    <3>2. phaseBar[r] = "active" /\ lateBar[r]
      BY <2>3, <3>1 DEF phaseBar, lateBar
    <3> QED
      BY <2>1, <2>3, <3>1, <3>2 DEF Promise!CutShort
  <2> QED
    BY <2>2, <2>3
<1>16. ASSUME NEW r \in Requests, Pause(r) PROVE UNCHANGED Promise!vars
  BY <1>16 DEF Pause, WatchGoto, requestVars, connection, Promise!vars, phaseBar, lateBar
<1> QED
  BY <1>0, <1>1, <1>2, <1>3, <1>4, <1>5, <1>6, <1>7, <1>8, <1>9, <1>10, <1>11, <1>12, <1>13, <1>14, <1>15, <1>16
  DEF Next, AllEnded, Thread, Watcher, Promise!Next

\* The threads, the event and the guard keep RequestSpec's promise.
THEOREM KeepsPromise == Spec => ImplementsPromise
<1>1. Init => Promise!Init
  BY PromiseInit
<1>2. IInv /\ [Next]_vars => [Promise!Next]_(Promise!vars)
  BY PromiseStep
<1> QED
  BY <1>1, <1>2, Invariance, PTL DEF Spec, ImplementsPromise, Promise!Spec
=============================================================================
