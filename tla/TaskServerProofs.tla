-------------------------- MODULE TaskServerProofs --------------------------
(***************************************************************************)
(* What `agent serve` guarantees about the tasks, for any number of tasks, *)
(* processes and scopes, whatever worker ids the processes have, and under *)
(* any number of crashes and database errors.                              *)
(***************************************************************************)
EXTENDS TaskServer, TaskTableProofs, FiniteSetTheorems, TLAPS

\* Why it holds although the processes may share one worker_id: the server
\* never requeues, so a task leaves "queued" once and for all, and whoever
\* claimed it is the only one that ever works on it.
WorkersHoldTasks == \A p \in Procs : thread[p].pc \in InTask => thread[p].task \in Tasks

Exclusive ==
  \A p, q \in Procs, t \in Tasks : Executing(p, t) /\ Executing(q, t) => p = q

OwnsWhatItRuns ==
  \A p \in Procs, t \in Tasks :
    Executing(p, t) => /\ rows[t].state \in {"running", "canceled"}
                       /\ rows[t].owner = WorkerId[p]

ClaimsCounted ==
  \A t \in Tasks :
    /\ rows[t].state \in {"absent", "queued"} => claims[t] = 0
    /\ claims[t] <= 1

FaultFreeRunning ==
  \A t \in Tasks :
    rows[t].state = "running" /\ faults = 0 => \E p \in Procs : Executing(p, t)

IInv ==
  /\ TypeOK
  /\ WorkersHoldTasks
  /\ Exclusive
  /\ OwnsWhatItRuns
  /\ ClaimsCounted
  /\ FaultFreeRunning

\* Initially the table is empty and no thread has a task.
LEMMA InitInv == Init => IInv
<1> SUFFICES ASSUME Init PROVE IInv
  OBVIOUS
<1>1. TypeOK
  BY TableAssumption, ServerAssumption
  DEF Init, TypeOK, TableInit, TableTypeOK, AbsentRow, Row, States, FreshThread, Thread,
      InTask
<1>2. \A p \in Procs : thread[p].pc = "poll"
  BY DEF Init, FreshThread
<1>3. \A t \in Tasks : rows[t].state = "absent" /\ claims[t] = 0
  BY DEF Init, TableInit, AbsentRow
<1> QED
  BY <1>1, <1>2, <1>3
  DEF IInv, WorkersHoldTasks, Exclusive, OwnsWhatItRuns, ClaimsCounted, FaultFreeRunning,
      Executing, InTask

-----------------------------------------------------------------------------
(* Steps that do not touch the table.                                      *)

\* A step of the worker of p alone, after which it works on the task it
\* worked on before, or on none.
KeepsTask(p) ==
  /\ \A q \in Procs \ {p} : thread'[q] = thread[q]
  /\ thread'[p] \in Thread
  /\ thread'[p].pc \in InTask => thread[p].pc \in InTask /\ thread'[p].task = thread[p].task

\* Quiet steps of one process keep the invariant.
LEMMA QuietStep ==
  ASSUME IInv, NEW p \in Procs, KeepsTask(p), thread' \in [Procs -> Thread],
         known' \in [Procs -> SUBSET Scopes], adding' \in [Procs -> SUBSET Scopes],
         faults' \in 0..MaxFaults, UNCHANGED <<rows, clock, claims>>,
         \/ faults' # 0
         \/ /\ faults' = faults
            /\ \A t \in Tasks : Executing(p, t) /\ rows[t].state = "running"
                                  => Executing(p, t)'
  PROVE  IInv'
<1>1. \A q \in Procs, t \in Tasks : Executing(q, t)' => Executing(q, t)
  BY DEF KeepsTask, Executing
<1>2. TypeOK'
  BY DEF IInv, TypeOK, TableTypeOK
<1>3. WorkersHoldTasks'
  BY DEF IInv, WorkersHoldTasks, KeepsTask
<1>4. Exclusive' /\ OwnsWhatItRuns' /\ ClaimsCounted'
  BY <1>1 DEF IInv, Exclusive, OwnsWhatItRuns, ClaimsCounted
<1>5. FaultFreeRunning'
  <2> SUFFICES ASSUME NEW t \in Tasks, rows[t].state = "running", faults' = 0
               PROVE  \E q \in Procs : Executing(q, t)'
    BY DEF FaultFreeRunning
  <2>1. PICK q \in Procs : Executing(q, t)
    BY DEF IInv, FaultFreeRunning
  <2>2. CASE q = p
    BY <2>1, <2>2
  <2>3. CASE q # p
    BY <2>1, <2>3 DEF KeepsTask, Executing
  <2> QED BY <2>2, <2>3
<1> QED
  BY <1>2, <1>3, <1>4, <1>5 DEF IInv

\* The steps of the worker thread that leave the table alone are quiet.
LEMMA QuietSteps ==
  ASSUME IInv, NEW p \in Procs,
         \/ Snapshot(p) \/ NextScope(p) \/ ClaimNothing(p)
         \/ CheckClaimed(p) \/ RunTurn(p) \/ CheckFinished(p) \/ CheckExcepted(p)
         \/ DbErrorInTry(p) \/ DbErrorOutside(p) \/ Crash(p) \/ Restart(p)
  PROVE  IInv'
<1>t. /\ thread \in [Procs -> Thread] /\ known \in [Procs -> SUBSET Scopes]
      /\ adding \in [Procs -> SUBSET Scopes] /\ faults \in 0..MaxFaults
      /\ clock \in Nat /\ MaxFaults \in Nat /\ DefaultScope \in Scopes
  BY TableAssumption, ServerAssumption DEF IInv, TypeOK, TableTypeOK
<1>f. FreshThread \in Thread /\ FreshThread.pc = "poll"
      /\ [FreshThread EXCEPT !.pc = "down"] \in Thread
  BY <1>t DEF FreshThread, Thread, InTask
<1>1. CASE Snapshot(p) \/ NextScope(p) \/ ClaimNothing(p)
  <2>1. /\ thread[p].pc \notin InTask
        /\ UNCHANGED <<rows, clock, known, adding, claims, faults>>
    BY <1>1 DEF Snapshot, NextScope, ClaimNothing, InTask
  <2>2. PICK new \in Thread : thread' = [thread EXCEPT ![p] = new] /\ new.pc \notin InTask
    <3>1. thread[p] \in Thread
      BY <1>t
    <3>2. CASE Snapshot(p)
      <4> DEFINE new == [thread[p] EXCEPT !.pc = "scopes", !.todo = known[p]]
      <4>1. new \in Thread /\ new.pc \notin InTask
        BY <1>t, <3>1 DEF Thread, InTask
      <4> QED BY <3>2, <4>1, <1>t DEF Snapshot
    <3>3. CASE NextScope(p) /\ thread' = [thread EXCEPT ![p].pc = "poll"]
      <4> DEFINE new == [thread[p] EXCEPT !.pc = "poll"]
      <4>1. new \in Thread /\ new.pc \notin InTask
        BY <3>1 DEF Thread, InTask
      <4> QED BY <3>3, <4>1
    <3>4. ASSUME NEW s \in thread[p].todo,
                 thread' = [thread EXCEPT ![p].pc = "claim", ![p].scope = s,
                                          ![p].todo = @ \ {s}, ![p].now = clock]
          PROVE  \E new \in Thread : thread' = [thread EXCEPT ![p] = new]
                                     /\ new.pc \notin InTask
      <4> DEFINE new == [thread[p] EXCEPT !.pc = "claim", !.scope = s,
                                          !.todo = @ \ {s}, !.now = clock]
      <4>1. new \in Thread /\ new.pc \notin InTask
        BY <1>t, <3>1 DEF Thread, InTask
      <4> QED BY <3>4, <4>1
    <3>5. CASE ClaimNothing(p)
      <4> DEFINE new == [Called(p) EXCEPT !.pc = "scopes"]
      <4>1. new \in Thread /\ new.pc \notin InTask
        BY <1>t, <3>1 DEF Called, Thread, InTask
      <4> QED BY <3>5, <4>1 DEF ClaimNothing
    <3> QED BY <1>1, <3>2, <3>3, <3>4, <3>5 DEF NextScope, Go
  <2>3. KeepsTask(p) /\ thread' \in [Procs -> Thread]
    BY <1>t, <2>2 DEF KeepsTask
  <2> QED BY <1>t, <2>1, <2>3, QuietStep DEF Executing
<1>2. ASSUME NEW from, NEW to, CheckThen(p, from, to),
             from \in InTask, to \in InTask
      PROVE  IInv'
  <2>1. /\ KeepsTask(p) /\ thread' \in [Procs -> Thread]
        /\ UNCHANGED <<rows, clock, known, adding, claims, faults>>
    BY <1>2, <1>t DEF CheckThen, Leave, Go, KeepsTask, Thread, InTask
  <2>2. ASSUME NEW t \in Tasks, Executing(p, t), rows[t].state = "running"
        PROVE  Executing(p, t)'
    <3>1. thread[p].task = t /\ ~ IsCanceled(t)
      BY <2>2 DEF Executing, IsCanceled
    <3> QED BY <1>2, <1>t, <3>1 DEF CheckThen, Go, Executing, Thread
  <2> QED BY <1>t, <2>1, <2>2, QuietStep
<1>3. CASE RunTurn(p)
  <2>1. /\ KeepsTask(p) /\ thread' \in [Procs -> Thread]
        /\ UNCHANGED <<rows, clock, known, adding, claims, faults>>
        /\ \A t \in Tasks : Executing(p, t) => Executing(p, t)'
    BY <1>3, <1>t DEF RunTurn, Go, KeepsTask, Thread, InTask, Executing
  <2> QED BY <1>t, <2>1, QuietStep
<1>4. CASE DbErrorInTry(p) \/ DbErrorOutside(p) \/ Crash(p)
  <2>1. /\ KeepsTask(p) /\ thread' \in [Procs -> Thread]
        /\ UNCHANGED <<rows, clock, claims>>
    <3>1. CASE DbErrorInTry(p)
      BY <1>t, <3>1 DEF DbErrorInTry, Go, KeepsTask, Thread, InTask
    <3>2. CASE DbErrorOutside(p)
      BY <1>t, <1>f, <3>2 DEF DbErrorOutside, KeepsTask, InTask
    <3>3. CASE Crash(p)
      BY <1>t, <1>f, <3>3 DEF Crash, KeepsTask, InTask, FreshThread
    <3> QED BY <1>4, <3>1, <3>2, <3>3
  <2>2. /\ known' \in [Procs -> SUBSET Scopes] /\ adding' \in [Procs -> SUBSET Scopes]
        /\ faults' \in 0..MaxFaults /\ faults' # 0
    BY <1>4, <1>t DEF DbErrorInTry, DbErrorOutside, Crash, Fault
  <2> QED BY <2>1, <2>2, QuietStep
<1>5. CASE Restart(p)
  <2>1. /\ KeepsTask(p) /\ thread' \in [Procs -> Thread] /\ thread[p].pc \notin InTask
        /\ UNCHANGED <<rows, clock, known, adding, claims, faults>>
    BY <1>5, <1>t, <1>f DEF Restart, Up, KeepsTask, InTask
  <2> QED BY <1>t, <2>1, QuietStep DEF Executing
<1> QED
  BY <1>1, <1>2, <1>3, <1>4, <1>5 DEF CheckClaimed, CheckFinished, CheckExcepted, InTask

-----------------------------------------------------------------------------
(* Steps that touch the table, and requests.                               *)

\* Every step of the server keeps the invariant.
LEMMA StepInv == IInv /\ [Next]_vars => IInv'
<1> SUFFICES ASSUME IInv, [Next]_vars PROVE IInv'
  OBVIOUS
<1>t. /\ TypeOK /\ TableTypeOK
      /\ rows \in [Tasks -> Row] /\ clock \in Nat /\ 0..clock \subseteq Nat
      /\ thread \in [Procs -> Thread] /\ known \in [Procs -> SUBSET Scopes]
      /\ adding \in [Procs -> SUBSET Scopes] /\ claims \in [Tasks -> Nat]
      /\ ScopeOf \in [Tasks -> Scopes] /\ WorkerId \in [Procs -> Ids]
  BY TableAssumption, ServerAssumption DEF IInv, TypeOK, TableTypeOK
<1> USE DEF IInv
<1>1. ASSUME NEW p \in Procs, NEW t \in Tasks, CreateTask(p, t) PROVE IInv'
  <2>1. TypeOK'
    BY <1>t, <1>1, RowsStayTyped DEF CreateTask, TypeOK, TableTypeOK
  <2>2. /\ UNCHANGED <<thread, claims, faults>>
        /\ rows[t].state = "absent" /\ rows'[t].state = "queued"
        /\ \A u \in Tasks \ {t} : rows'[u] = rows[u]
    BY <1>t, <1>1 DEF CreateTask, Create, Row
  <2> QED BY <2>1, <2>2
    DEF WorkersHoldTasks, Exclusive, OwnsWhatItRuns, ClaimsCounted, FaultFreeRunning,
        Executing
<1>2. ASSUME NEW t \in Tasks, CancelTask(t) PROVE IInv'
  <2>1. TypeOK'
    BY <1>t, <1>2, RowsStayTyped, 0 \in Nat DEF CancelTask, TypeOK, TableTypeOK
  <2>2. /\ UNCHANGED <<thread, claims, faults>>
        /\ rows[t].state # "absent" /\ rows'[t].owner = rows[t].owner
        /\ rows'[t].state \in {rows[t].state, "canceled"}
        /\ rows'[t].state = "queued" => rows[t].state = "queued"
        /\ \A u \in Tasks \ {t} : rows'[u] = rows[u]
    BY <1>t, <1>2 DEF CancelTask, Cancel, Row
  <2> QED BY <2>1, <2>2
    DEF WorkersHoldTasks, Exclusive, OwnsWhatItRuns, ClaimsCounted, FaultFreeRunning,
        Executing
<1>3. ASSUME NEW p \in Procs, NEW t \in Tasks, ClaimTask(p, t) PROVE IInv'
  <2>1. thread[p].now \in Nat /\ thread[p].scope \in Scopes
    BY <1>t DEF Thread
  <2>2. ClaimNext(thread[p].scope, WorkerId[p], thread[p].now, t)
    BY <1>3 DEF ClaimTask
  <2>3. rows' \in [Tasks -> Row]
    BY <1>t, <2>1, <2>2, RowsStayTyped
  <2>4. /\ rows[t].state = "queued" /\ rows'[t].state = "running"
        /\ rows'[t].owner = WorkerId[p]
        /\ \A u \in Tasks \ {t} : rows'[u] = rows[u]
    BY <1>t, <2>2 DEF ClaimNext, Oldest, Claimable, Row
  <2>5. /\ claims' = [claims EXCEPT ![t] = @ + 1]
        /\ UNCHANGED <<clock, known, adding, faults>>
    BY <1>3 DEF ClaimTask
  <2> DEFINE new == [Called(p) EXCEPT !.pc = "check", !.task = t]
  <2>6. new \in Thread /\ new.pc = "check" /\ new.task = t
    <3>1. thread[p] \in Thread
      BY <1>t
    <3>2. Called(p) \in Thread
      BY <3>1, ServerAssumption DEF Called, Thread
    <3> HIDE DEF new
    <3>3. ASSUME NEW r \in Thread, new = [r EXCEPT !.pc = "check", !.task = t]
          PROVE  new \in Thread /\ new.pc = "check" /\ new.task = t
      BY <3>3 DEF Thread, InTask
    <3> QED BY <3>2, <3>3 DEF new
  <2>7. thread' = [thread EXCEPT ![p] = new] /\ thread[p].pc \notin InTask
    BY <1>3 DEF ClaimTask, InTask
  <2> HIDE DEF new
  <2>8. \A q \in Procs, u \in Tasks :
          Executing(q, u)' <=> (q = p /\ u = t) \/ (q # p /\ Executing(q, u))
    BY <1>t, <2>6, <2>7 DEF Executing, InTask
  <2>9. \A q \in Procs, u \in Tasks : Executing(q, u) => q # p /\ u # t
    BY <2>4, <2>7 DEF Executing, OwnsWhatItRuns
  <2>10. TypeOK'
    BY <1>t, <2>3, <2>5, <2>6, <2>7 DEF TypeOK, TableTypeOK
  <2>11. WorkersHoldTasks'
    BY <1>t, <2>6, <2>7 DEF WorkersHoldTasks
  <2>12. Exclusive' /\ OwnsWhatItRuns' /\ ClaimsCounted'
    BY <1>t, <2>4, <2>5, <2>8, <2>9 DEF Exclusive, OwnsWhatItRuns, ClaimsCounted
  <2>13. FaultFreeRunning'
    <3> SUFFICES ASSUME NEW u \in Tasks, rows'[u].state = "running", faults' = 0
                 PROVE  \E q \in Procs : Executing(q, u)'
      BY DEF FaultFreeRunning
    <3>1. CASE u = t
      BY <2>8, <3>1
    <3>2. CASE u # t
      <4>1. PICK q \in Procs : Executing(q, u)
        BY <2>4, <2>5, <3>2 DEF FaultFreeRunning
      <4> QED BY <2>8, <2>9, <4>1
    <3> QED BY <3>1, <3>2
  <2> QED BY <2>10, <2>11, <2>12, <2>13
<1>4. ASSUME NEW p \in Procs, NEW from \in InTask, NEW target \in {"completed", "failed"},
             SettleAs(p, from, target)
      PROVE  IInv'
  <2> DEFINE t == thread[p].task
  <2>1. t \in Tasks /\ Executing(p, t) /\ rows[t].owner = WorkerId[p]
        /\ rows[t].state \in {"running", "canceled"}
    BY <1>4 DEF SettleAs, WorkersHoldTasks, OwnsWhatItRuns, Executing
  <2>2. Transition(t, WorkerId[p], target) /\ UNCHANGED <<clock, known, adding, claims, faults>>
    BY <1>4 DEF SettleAs
  <2>3. rows' \in [Tasks -> Row]
    BY <1>t, <2>1, <2>2, 0 \in Nat, RowsStayTyped
  <2>4. /\ rows'[t].state \in {"completed", "failed", "canceled"}
        /\ \A u \in Tasks \ {t} : rows'[u] = rows[u]
    BY <1>t, <2>1, <2>2 DEF Transition, Row
  <2>5. /\ thread' \in [Procs -> Thread] /\ thread'[p].pc = "scopes"
        /\ \A q \in Procs \ {p} : thread'[q] = thread[q]
    <3> DEFINE left == [thread[p] EXCEPT !.pc = "scopes", !.task = NoTask]
    <3>1. thread' = [thread EXCEPT ![p] = left]
      BY <1>t, <1>4 DEF SettleAs, Leave
    <3>2. left \in Thread /\ left.pc = "scopes"
      BY <1>t DEF Thread
    <3> HIDE DEF left
    <3> QED BY <1>t, <3>1, <3>2
  <2>6. \A q \in Procs, u \in Tasks :
          Executing(q, u)' <=> q # p /\ u # t /\ Executing(q, u)
    BY <2>1, <2>5 DEF Executing, Exclusive, InTask
  <2>7. TypeOK' /\ WorkersHoldTasks'
    BY <1>t, <2>2, <2>3, <2>5 DEF TypeOK, TableTypeOK, WorkersHoldTasks, InTask
  <2> HIDE DEF t
  <2>8. Exclusive' /\ OwnsWhatItRuns' /\ ClaimsCounted'
    BY <2>1, <2>2, <2>4, <2>6 DEF Exclusive, OwnsWhatItRuns, ClaimsCounted
  <2>9. FaultFreeRunning'
    <3> SUFFICES ASSUME NEW u \in Tasks, rows'[u].state = "running", faults' = 0
                 PROVE  \E q \in Procs : Executing(q, u)'
      BY DEF FaultFreeRunning
    <3>1. u # t /\ rows[u].state = "running"
      BY <2>4
    <3>2. PICK q \in Procs : Executing(q, u)
      BY <2>2, <3>1 DEF FaultFreeRunning
    <3>3. q # p
      BY <3>1, <3>2 DEF Executing, t
    <3> QED BY <2>6, <3>1, <3>2, <3>3
  <2> QED BY <2>7, <2>8, <2>9
<1>5. ASSUME NEW p \in Procs, CompleteTask(p) \/ FailTask(p) PROVE IInv'
  BY <1>4, <1>5 DEF CompleteTask, FailTask, InTask
<1>6. ASSUME NEW p \in Procs,
             \/ Snapshot(p) \/ NextScope(p) \/ ClaimNothing(p)
             \/ CheckClaimed(p) \/ RunTurn(p) \/ CheckFinished(p) \/ CheckExcepted(p)
             \/ DbErrorInTry(p) \/ DbErrorOutside(p) \/ Crash(p) \/ Restart(p)
      PROVE  IInv'
  BY <1>6, QuietSteps
<1>7. ASSUME (\E p \in Procs, s \in Scopes : AddScope(p, s)) \/ Advance \/ UNCHANGED vars
      PROVE  IInv'
  <2>1. /\ UNCHANGED <<rows, thread, claims, faults>> /\ clock' \in 0..MaxClock
        /\ known' \in [Procs -> SUBSET Scopes] /\ adding' \in [Procs -> SUBSET Scopes]
    BY <1>t, <1>7, TableAssumption DEF AddScope, Advance, Tick, vars, TableTypeOK
  <2>2. TypeOK'
    BY <2>1 DEF TypeOK, TableTypeOK
  <2> QED BY <2>1, <2>2
    DEF WorkersHoldTasks, Exclusive, OwnsWhatItRuns, ClaimsCounted, FaultFreeRunning,
        Executing
<1> QED
  BY <1>1, <1>2, <1>3, <1>5, <1>6, <1>7 DEF Next, WorkerStep

-----------------------------------------------------------------------------
(* The theorems.                                                           *)

\* The processes, the table and the counts keep their types.
THEOREM TypeCorrect == Spec => []TypeOK
<1>1. IInv => TypeOK
  BY DEF IInv
<1> QED
  BY <1>1, InitInv, StepInv, PTL DEF Spec

\* The server hands a task out at most once, whatever crashes: a prompt
\* never runs twice.
THEOREM OneAttempt == Spec => []AtMostOneAttempt
<1>1. IInv => AtMostOneAttempt
  BY DEF IInv, ClaimsCounted, AtMostOneAttempt
<1> QED
  BY <1>1, InitInv, StepInv, PTL DEF Spec

\* No two processes work on one task, though their worker ids may be the
\* same, and a running task has its worker as long as nothing failed.
THEOREM OneWorker == Spec => []OneWorkerPerTask
<1>1. ASSUME IInv PROVE OneWorkerPerTask
  <2> SUFFICES ASSUME NEW t \in Tasks
               PROVE  LET busy == {p \in Procs : Executing(p, t)}
                      IN  /\ Cardinality(busy) <= 1
                          /\ rows[t].state = "running" /\ faults = 0 => busy # {}
    BY DEF OneWorkerPerTask
  <2> DEFINE busy == {p \in Procs : Executing(p, t)}
  <2>1. Cardinality(busy) <= 1
    <3>1. CASE busy = {}
      BY <3>1, FS_EmptySet
    <3>2. ASSUME NEW p \in busy PROVE busy = {p}
      BY <1>1, <3>2 DEF IInv, Exclusive
    <3>3. \A p \in busy : Cardinality({p}) = 1
      BY FS_Singleton
    <3> QED BY <3>1, <3>2, <3>3
  <2>2. rows[t].state = "running" /\ faults = 0 => busy # {}
    BY <1>1 DEF IInv, FaultFreeRunning
  <2> QED BY <2>1, <2>2
<1> QED
  BY <1>1, InitInv, StepInv, PTL DEF Spec

\* A step that moves one task from one state to another, all else as it was.
LEMMA OneMove ==
  ASSUME NEW t \in Tasks, NEW from, NEW to, rows \in [Tasks -> Row],
         rows[t].state = from, rows'[t].state = to,
         \A u \in Tasks \ {t} : rows'[u].state = rows[u].state
  PROVE  Life!Move(t, from, to)
<1>1. [u \in Tasks |-> rows'[u].state]
        = [[u \in Tasks |-> rows[u].state] EXCEPT ![t] = to]
  OBVIOUS
<1> QED
  BY <1>1 DEF Life!Move

\* The empty table is the initial state of the life cycle.
LEMMA InitImplements == Init => Life!LifeInit
  BY DEF Init, TableInit, AbsentRow, Life!LifeInit

\* Every step of the server is a step of the life cycle, or leaves it alone.
LEMMA StepImplements ==
  ASSUME IInv, [Next]_vars
  PROVE  [Life!LifeNext]_(Life!lifeVars)
<1>w. /\ thread \in [Procs -> Thread] /\ claims \in [Tasks -> Nat]
      /\ rows \in [Tasks -> Row]
  BY DEF IInv, TypeOK, TableTypeOK
<1>1. ASSUME NEW p \in Procs, NEW t \in Tasks, CreateTask(p, t) PROVE Life!LifeNext
  <2>1. rows[t].state = "absent" /\ rows'[t].state = "queued" /\ claims' = claims
        /\ \A u \in Tasks \ {t} : rows'[u].state = rows[u].state
    BY <1>1, <1>w DEF CreateTask, Create, Row
  <2> QED BY <2>1, <1>w, OneMove DEF Life!LifeNext, Life!Submit
<1>2. ASSUME NEW t \in Tasks, CancelTask(t)
      PROVE  Life!LifeNext \/ UNCHANGED Life!lifeVars
  <2>1. claims' = claims /\ \A u \in Tasks \ {t} : rows'[u].state = rows[u].state
    BY <1>2, <1>w DEF CancelTask, Cancel, Row
  <2>2. CASE rows[t].state \in {"queued", "running"}
    <3>1. rows'[t].state = "canceled"
      BY <1>2, <2>2, <1>w DEF CancelTask, Cancel, Row
    <3> QED BY <2>1, <2>2, <3>1, <1>w, OneMove DEF Life!LifeNext, Life!Withdraw
  <2>3. CASE rows[t].state \notin {"queued", "running"}
    BY <1>2, <2>1, <2>3 DEF CancelTask, Cancel, Life!lifeVars
  <2> QED BY <2>2, <2>3
<1>3. ASSUME NEW p \in Procs, NEW t \in Tasks, ClaimTask(p, t) PROVE Life!LifeNext
  <2>1. claims' = [claims EXCEPT ![t] = @ + 1]
        /\ rows[t].state = "queued" /\ rows'[t].state = "running"
        /\ \A u \in Tasks \ {t} : rows'[u].state = rows[u].state
    BY <1>3, <1>w DEF ClaimTask, ClaimNext, Oldest, Claimable, Row
  <2> QED BY <2>1, <1>w, OneMove DEF Life!LifeNext, Life!Start
<1>4. ASSUME NEW p \in Procs, NEW from \in InTask, NEW target \in {"completed", "failed"},
             SettleAs(p, from, target)
      PROVE  Life!LifeNext \/ UNCHANGED Life!lifeVars
  <2> DEFINE t == thread[p].task
  <2>1. claims' = claims /\ Transition(t, WorkerId[p], target)
    BY <1>4 DEF SettleAs
  <2>2. t \in Tasks /\ rows[t].owner = WorkerId[p]
        /\ rows[t].state \in {"running", "canceled"}
    BY <1>4 DEF SettleAs, IInv, WorkersHoldTasks, OwnsWhatItRuns, Executing
  <2> HIDE DEF t
  <2>3. CASE rows[t].state = "running"
    <3>1. rows'[t].state = target
          /\ \A u \in Tasks \ {t} : rows'[u].state = rows[u].state
      BY <2>1, <2>2, <2>3, <1>w DEF Transition, Row
    <3> QED BY <2>1, <2>2, <2>3, <3>1, <1>w, OneMove DEF Life!LifeNext, Life!Finish
  <2>4. CASE rows[t].state = "canceled"
    BY <2>1, <2>4 DEF Transition, Life!lifeVars
  <2> QED BY <2>2, <2>3, <2>4
<1>5. ASSUME UNCHANGED <<rows, claims>> PROVE UNCHANGED Life!lifeVars
  BY <1>5 DEF Life!lifeVars
<1>6. ASSUME NEW p \in Procs,
             \/ Snapshot(p) \/ NextScope(p) \/ ClaimNothing(p)
             \/ CheckClaimed(p) \/ RunTurn(p) \/ CheckFinished(p) \/ CheckExcepted(p)
             \/ DbErrorInTry(p) \/ DbErrorOutside(p) \/ Crash(p) \/ Restart(p)
             \/ \E s \in Scopes : AddScope(p, s)
      PROVE  UNCHANGED <<rows, claims>>
  BY <1>6
  DEF Snapshot, NextScope, ClaimNothing, CheckClaimed, CheckFinished, CheckExcepted,
      CheckThen, RunTurn, DbErrorInTry, DbErrorOutside, Crash, Restart, AddScope
<1>7. Advance \/ UNCHANGED vars => UNCHANGED <<rows, claims>>
  BY DEF Advance, vars
<1>8. ASSUME NEW p \in Procs, CompleteTask(p) \/ FailTask(p)
      PROVE  Life!LifeNext \/ UNCHANGED Life!lifeVars
  BY <1>4, <1>8 DEF CompleteTask, FailTask, InTask
<1> QED
  BY <1>1, <1>2, <1>3, <1>5, <1>6, <1>7, <1>8 DEF Next, WorkerStep

\* Every behaviour of the server is one the task life cycle allows, whatever
\* ids, cancels, crashes and database errors.
THEOREM Refinement == Spec => ImplementsLifecycle
  BY InitInv, StepInv, InitImplements, StepImplements, PTL
  DEF Spec, ImplementsLifecycle, Life!LifeSpec
=============================================================================
