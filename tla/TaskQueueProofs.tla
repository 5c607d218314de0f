--------------------------- MODULE TaskQueueProofs ---------------------------
(***************************************************************************)
(* What TaskQueue guarantees, for any number of tasks, workers and scopes, *)
(* any lease length and any schedule.                                      *)
(***************************************************************************)
EXTENDS TaskQueue, TaskTableProofs, TLAPS

\* Initially the types are right.
LEMMA InitTyped == Init => TypeOK
  BY TableAssumption, QueueAssumption
  DEF Init, TypeOK, TableInit, TableTypeOK, AbsentRow, Row, States, IdleWorker, Worker

\* Every step keeps the types, whatever the ids.
LEMMA StepTyped == TypeOK /\ [Next]_vars => TypeOK'
<1> SUFFICES ASSUME TypeOK, [Next]_vars PROVE TypeOK'
  OBVIOUS
<1>0. TableTypeOK /\ clock \in Nat /\ 0..clock \subseteq Nat
  BY TableAssumption DEF TypeOK, TableTypeOK
<1>w. worker \in [Workers -> Worker] /\ claims \in [Tasks -> Nat]
  BY DEF TypeOK
<1>1. ASSUME NEW t \in Tasks, PostTask(t) PROVE TypeOK'
  BY <1>0, <1>1, RowsStayTyped DEF PostTask, TypeOK, TableTypeOK
<1>2. ASSUME NEW t \in Tasks, CancelTask(t) PROVE TypeOK'
  BY <1>0, <1>2, RowsStayTyped, 0 \in Nat DEF CancelTask, TypeOK, TableTypeOK
<1>3. ASSUME NEW S \in {{s} : s \in Scopes} \cup {Scopes}, Janitor(S) PROVE TypeOK'
  <2>1. S \in SUBSET Scopes
    OBVIOUS
  <2> QED BY <1>0, <1>3, <2>1, RowsStayTyped DEF Janitor, TypeOK, TableTypeOK
<1>4. ASSUME NEW w \in Workers, BeginClaim(w) \/ BeginRenew(w) \/ Die(w) PROVE TypeOK'
  <2>1. worker' \in [Workers -> Worker]
    BY <1>0, <1>w, <1>4 DEF BeginClaim, BeginRenew, Die, Worker, IdleWorker
  <2> QED BY <2>1, <1>4 DEF BeginClaim, BeginRenew, Die, TypeOK, TableTypeOK
<1>5. ASSUME NEW w \in Workers, NEW s \in Scopes, ClaimTask(w, s) PROVE TypeOK'
  <2>1. worker[w].now \in Nat
    BY <1>w DEF Worker
  <2>2. PICK t \in Tasks :
          /\ ClaimNext(s, WorkerId[w], worker[w].now, t)
          /\ claims' = [claims EXCEPT ![t] = @ + 1]
          /\ worker' = [worker EXCEPT ![w] = [pc |-> "running", task |-> t,
                                              now |-> 0, att |-> claims[t] + 1]]
    BY <1>5 DEF ClaimTask
  <2>3. rows' \in [Tasks -> Row]
    BY <1>0, <2>1, <2>2, RowsStayTyped, QueueAssumption
  <2>4. worker' \in [Workers -> Worker] /\ claims' \in [Tasks -> Nat]
    BY <1>w, <2>2 DEF Worker
  <2> QED BY <1>5, <2>3, <2>4 DEF ClaimTask, TypeOK, TableTypeOK
<1>6. ASSUME NEW w \in Workers, NEW s \in Scopes, ClaimNothing(w, s) PROVE TypeOK'
  <2>1. worker' \in [Workers -> Worker]
    BY <1>w, <1>6 DEF ClaimNothing, Worker, IdleWorker
  <2> QED BY <2>1, <1>6 DEF ClaimNothing, TypeOK, TableTypeOK
<1>7. ASSUME NEW w \in Workers, Renew(w) PROVE TypeOK'
  <2>1. worker' \in [Workers -> Worker] /\ worker[w].now \in Nat
        /\ worker[w].task \in Tasks \cup {NoTask}
    <3> DEFINE renewed == [worker[w] EXCEPT !.pc = "running", !.now = 0]
    <3>1. worker' = [worker EXCEPT ![w] = renewed]
      BY <1>w, <1>7 DEF Renew
    <3>2. renewed \in Worker
      BY <1>w DEF Worker
    <3>3. worker[w].now \in Nat /\ worker[w].task \in Tasks \cup {NoTask}
      BY <1>w DEF Worker
    <3> HIDE DEF renewed
    <3> QED BY <1>w, <3>1, <3>2, <3>3
  <2>2. rows' \in [Tasks -> Row]
    <3>1. CASE worker[w].task \in Tasks
      BY <1>0, <1>7, <2>1, <3>1, RowsStayTyped, QueueAssumption DEF Renew
    <3>2. CASE worker[w].task = NoTask
      BY <1>0, <1>7, <3>2, QueueAssumption DEF Renew, Heartbeat, TableTypeOK
    <3> QED BY <2>1, <3>1, <3>2
  <2> QED BY <2>1, <2>2, <1>7 DEF Renew, TypeOK, TableTypeOK
<1>8. ASSUME NEW w \in Workers, NEW target \in {"completed", "failed"}, Settle(w, target)
      PROVE  TypeOK'
  <2>1. worker' \in [Workers -> Worker] /\ worker[w].task \in Tasks \cup {NoTask}
    BY <1>w, <1>8 DEF Settle, Worker, IdleWorker
  <2>2. rows' \in [Tasks -> Row]
    <3>1. CASE worker[w].task \in Tasks
      BY <1>0, <1>8, <3>1, 0 \in Nat, RowsStayTyped, QueueAssumption DEF Settle
    <3>2. CASE worker[w].task = NoTask
      BY <1>0, <1>8, <3>2, QueueAssumption DEF Settle, Transition, TableTypeOK
    <3> QED BY <2>1, <3>1, <3>2
  <2> QED BY <2>1, <2>2, <1>8 DEF Settle, TypeOK, TableTypeOK
<1>9. ASSUME Advance PROVE TypeOK'
  BY <1>9, TableAssumption DEF Advance, Tick, TypeOK, TableTypeOK
<1>10. ASSUME UNCHANGED vars PROVE TypeOK'
  BY <1>10 DEF vars, TypeOK, TableTypeOK
<1> QED
  BY <1>1, <1>2, <1>3, <1>4, <1>5, <1>6, <1>7, <1>8, <1>9, <1>10 DEF Next

\* The table, the workers and the claim counts keep their types.
THEOREM TypeCorrect == Spec => []TypeOK
  BY InitTyped, StepTyped, PTL DEF Spec

-----------------------------------------------------------------------------
(* Who may settle a task.                                                  *)

\* OwnerIsCurrentAttempt is inductive once the types are known: a claim puts
\* its own id in the row together with the new attempt number, so every
\* other worker that still holds the task stops finding its id there; a
\* requeue removes the owner; only the owner itself can finish the task, and
\* it forgets the task in the same step.
IInv == TypeOK /\ OwnerIsCurrentAttempt

\* Initially nobody holds a task.
LEMMA InitInv == Init => IInv
  BY InitTyped DEF IInv, Init, OwnerIsCurrentAttempt, Holds, IdleWorker

\* In a step that leaves the holders and their attempts as they are and
\* gives no row to a new owner, the invariant can only break on a row whose
\* state leaves {running, canceled} with its owner in place.
LEMMA SameHolders ==
  ASSUME IInv,
         \A w \in Workers, t \in Tasks :
           Holds(w, t)' => Holds(w, t) /\ worker'[w].att = worker[w].att
                                       /\ claims'[t] = claims[t],
         \A t \in Tasks, w \in Workers :
           Holds(w, t)' /\ rows'[t].owner = WorkerId[w]
             => /\ rows[t].owner = WorkerId[w]
                /\ rows[t].state \in {"running", "canceled"}
                     => rows'[t].state \in {"running", "canceled"}
  PROVE  OwnerIsCurrentAttempt'
  BY DEF IInv, OwnerIsCurrentAttempt

\* With distinct worker ids, every step keeps the invariant.
LEMMA StepInv ==
  ASSUME DistinctIds, IInv, [Next]_vars
  PROVE  IInv'
<1>t. TypeOK /\ TypeOK' /\ TableTypeOK
  BY StepTyped DEF IInv, TypeOK
<1>w. /\ worker \in [Workers -> Worker] /\ claims \in [Tasks -> Nat]
      /\ rows \in [Tasks -> Row]
  BY <1>t DEF TypeOK, TableTypeOK
<1>i. WorkerId \in [Workers -> Ids] /\ NoOwner \notin Ids
  BY QueueAssumption, TableAssumption
<1>1. ASSUME NEW t \in Tasks, PostTask(t) PROVE OwnerIsCurrentAttempt'
  <2>1. UNCHANGED <<worker, claims>>
        /\ \A u \in Tasks : rows'[u] # rows[u] => rows'[u].owner = NoOwner
    BY <1>1, <1>w DEF PostTask, Create, Row
  <2> QED BY <1>i, <2>1, SameHolders, IInv DEF Holds
<1>2. ASSUME NEW t \in Tasks, CancelTask(t) PROVE OwnerIsCurrentAttempt'
  <2>1. UNCHANGED <<worker, claims>>
        /\ \A u \in Tasks : /\ rows'[u].owner = rows[u].owner
                            /\ rows'[u].state \in {rows[u].state, "canceled"}
    BY <1>2, <1>w DEF CancelTask, Cancel, Row
  <2> QED BY <2>1, SameHolders, IInv DEF Holds
<1>3. ASSUME NEW S \in {{s} : s \in Scopes} \cup {Scopes}, Janitor(S)
      PROVE  OwnerIsCurrentAttempt'
  <2>1. UNCHANGED <<worker, claims>>
        /\ \A u \in Tasks : rows'[u] # rows[u] => rows'[u].owner = NoOwner
    BY <1>3, <1>w DEF Janitor, RequeueExpired, RequeuedRow, Row
  <2> QED BY <1>i, <2>1, SameHolders, IInv DEF Holds
<1>4. ASSUME NEW w \in Workers,
             \/ BeginClaim(w) \/ BeginRenew(w) \/ Die(w)
             \/ \E s \in Scopes : ClaimNothing(w, s)
      PROVE  OwnerIsCurrentAttempt'
  <2>1. UNCHANGED <<rows, claims>>
        /\ \A v \in Workers, t \in Tasks :
             Holds(v, t)' => Holds(v, t) /\ worker'[v].att = worker[v].att
    BY <1>4, <1>w
       DEF BeginClaim, BeginRenew, Die, ClaimNothing, Holds, Worker, IdleWorker
  <2> QED BY <2>1, SameHolders, IInv
<1>5. ASSUME NEW w \in Workers, NEW s \in Scopes, ClaimTask(w, s)
      PROVE  OwnerIsCurrentAttempt'
  <2>1. PICK t \in Tasks :
          /\ rows' = [rows EXCEPT ![t].state = "running", ![t].owner = WorkerId[w],
                                  ![t].lease = worker[w].now + LeaseSecs]
          /\ claims' = [claims EXCEPT ![t] = @ + 1]
          /\ worker' = [worker EXCEPT ![w] = [pc |-> "running", task |-> t,
                                              now |-> 0, att |-> claims[t] + 1]]
    BY <1>5 DEF ClaimTask, ClaimNext
  <2>2. rows'[t].state = "running" /\ rows'[t].owner = WorkerId[w]
        /\ \A u \in Tasks \ {t} : rows'[u] = rows[u] /\ claims'[u] = claims[u]
    BY <2>1, <1>w DEF Row
  <2>3. \A v \in Workers \ {w} : worker'[v] = worker[v] /\ WorkerId[v] # WorkerId[w]
    BY <2>1, <1>w DEF DistinctIds
  <2>4. worker'[w].att = claims'[t] /\ worker'[w].task = t
    BY <2>1, <1>w
  <2> QED BY <2>2, <2>3, <2>4, IInv DEF IInv, OwnerIsCurrentAttempt, Holds
<1>6. ASSUME NEW w \in Workers, Renew(w) PROVE OwnerIsCurrentAttempt'
  <2>1. /\ claims' = claims
        /\ \A u \in Tasks : /\ rows'[u].owner = rows[u].owner
                            /\ rows'[u].state = rows[u].state
    BY <1>6, <1>w DEF Renew, Heartbeat, Row
  <2>2. \A v \in Workers, t \in Tasks :
             Holds(v, t)' => Holds(v, t) /\ worker'[v].att = worker[v].att
    BY <1>6, <1>w DEF Renew, Holds, Worker
  <2> QED BY <2>1, <2>2, SameHolders, IInv
<1>7. ASSUME NEW w \in Workers, NEW target \in {"completed", "failed"}, Settle(w, target)
      PROVE  OwnerIsCurrentAttempt'
  <2>1. /\ claims' = claims
        /\ \A u \in Tasks : /\ rows'[u].owner = rows[u].owner
                            /\ rows'[u].state # rows[u].state
                                 => rows[u].owner = WorkerId[w]
    BY <1>7, <1>w DEF Settle, Transition, Row
  <2>2. \A v \in Workers, t \in Tasks :
          Holds(v, t)' => Holds(v, t) /\ worker'[v] = worker[v] /\ v # w
    BY <1>7, <1>w DEF Settle, Holds, IdleWorker
  <2> QED BY <2>1, <2>2, SameHolders, IInv DEF DistinctIds
<1>8. ASSUME Advance \/ UNCHANGED vars PROVE OwnerIsCurrentAttempt'
  BY <1>8, IInv DEF Advance, vars, IInv, OwnerIsCurrentAttempt, Holds
<1> QED
  <2>1. OwnerIsCurrentAttempt'
    BY <1>1, <1>2, <1>3, <1>4, <1>5, <1>6, <1>7, <1>8 DEF Next
  <2> QED BY <1>t, <2>1 DEF IInv

\* With distinct worker ids, a worker that finds its id in the row is the
\* one the task was last handed to (what heartbeat and _transition rely on).
THEOREM OwnerCurrent == DistinctIds => (Spec => []OwnerIsCurrentAttempt)
<1> SUFFICES ASSUME DistinctIds PROVE Spec => []OwnerIsCurrentAttempt
  OBVIOUS
<1>1. IInv /\ [Next]_vars => IInv'
  BY StepInv
<1>2. IInv => OwnerIsCurrentAttempt
  BY DEF IInv
<1> QED
  BY <1>1, <1>2, InitInv, PTL DEF Spec

-----------------------------------------------------------------------------
(* What a single step may do to a row.                                     *)

\* The moves of the life cycle that each kind of step can make.
LEMMA RowMoves ==
  ASSUME TypeOK, [Next]_vars, NEW t \in Tasks, rows'[t].state # rows[t].state
  PROVE  \/ rows[t].state = "absent" /\ rows'[t].state = "queued"
         \/ rows[t].state \in {"queued", "running"} /\ rows'[t].state = "canceled"
         \/ rows[t].state = "running" /\ rows'[t].state = "queued"
                                      /\ rows[t].lease < clock
         \/ rows[t].state = "queued" /\ rows'[t].state = "running"
                                     /\ claims'[t] = claims[t] + 1
         \/ \E w \in Workers :
              /\ worker[w].pc = "running" /\ worker[w].task = t
              /\ rows[t].owner = WorkerId[w] /\ rows[t].state # "canceled"
              /\ rows'[t].state \in {"completed", "failed"}
              /\ worker'[w] = IdleWorker
<1>w. /\ worker \in [Workers -> Worker] /\ claims \in [Tasks -> Nat]
      /\ rows \in [Tasks -> Row] /\ clock \in Nat
  BY TableAssumption DEF TypeOK, TableTypeOK
<1>1. ASSUME NEW u \in Tasks, PostTask(u) \/ CancelTask(u)
      PROVE  \/ rows[t].state = "absent" /\ rows'[t].state = "queued"
             \/ rows[t].state \in {"queued", "running"} /\ rows'[t].state = "canceled"
  BY <1>1, <1>w DEF PostTask, Create, CancelTask, Cancel, Row
<1>2. ASSUME NEW S \in {{s} : s \in Scopes} \cup {Scopes}, Janitor(S)
      PROVE  rows[t].state = "running" /\ rows'[t].state = "queued"
                                       /\ rows[t].lease < clock
  <2>1. PICK now \in 0..clock : RequeueExpired(S, now)
    BY <1>2 DEF Janitor
  <2>2. t \in Expired(S, now) /\ rows'[t] = RequeuedRow(rows[t], now)
    BY <2>1, <1>w DEF RequeueExpired
  <2>3. rows[t].lease \in Nat /\ rows[t] \in Row
    BY <1>w DEF Row
  <2> QED BY <2>2, <2>3, <1>w DEF Expired, RequeuedRow, Row
<1>3. ASSUME NEW w \in Workers, NEW s \in Scopes, ClaimTask(w, s)
      PROVE  rows[t].state = "queued" /\ rows'[t].state = "running"
                                      /\ claims'[t] = claims[t] + 1
  BY <1>3, <1>w DEF ClaimTask, ClaimNext, Oldest, Claimable, Row
<1>4. ASSUME NEW w \in Workers, Renew(w) PROVE FALSE
  BY <1>4, <1>w DEF Renew, Heartbeat, Row
<1>5. ASSUME NEW w \in Workers, NEW target \in {"completed", "failed"}, Settle(w, target)
      PROVE  /\ worker[w].pc = "running" /\ worker[w].task = t
             /\ rows[t].owner = WorkerId[w] /\ rows[t].state # "canceled"
             /\ rows'[t].state \in {"completed", "failed"}
             /\ worker'[w] = IdleWorker
  BY <1>5, <1>w DEF Settle, Transition, Row
<1>6. ASSUME UNCHANGED rows PROVE FALSE
  BY <1>6
<1>7. \/ \E w \in Workers : \/ BeginClaim(w) \/ BeginRenew(w) \/ Die(w)
                            \/ \E s \in Scopes : ClaimNothing(w, s)
      \/ Advance \/ UNCHANGED vars
      => UNCHANGED rows
  BY DEF BeginClaim, BeginRenew, Die, ClaimNothing, Advance, vars
<1> QED
  BY <1>1, <1>2, <1>3, <1>4, <1>5, <1>6, <1>7 DEF Next

\* A canceled task stays canceled, whatever the ids (FR-010).
THEOREM CanceledStays == Spec => CanceledIsFinal
<1>1. TypeOK /\ [Next]_vars => [\A t \in Tasks : IsCanceled(t) => IsCanceled(t)']_vars
  <2> SUFFICES ASSUME TypeOK, [Next]_vars, NEW t \in Tasks, IsCanceled(t)
               PROVE  IsCanceled(t)'
    OBVIOUS
  <2> QED BY RowMoves DEF IsCanceled
<1> QED
  BY <1>1, TypeCorrect, PTL DEF Spec, CanceledIsFinal

\* requeue_expired takes a task only when its lease has run out by the time
\* of the UPDATE, however old the clock reading it compares with.
THEOREM NoLeaseCutShort == Spec => NoEarlyRequeue
<1>1. TypeOK /\ [Next]_vars =>
        [\A t \in Tasks : rows[t].state = "running" /\ rows'[t].state = "queued"
                            => rows[t].lease < clock]_vars
  <2> SUFFICES ASSUME TypeOK, [Next]_vars, NEW t \in Tasks,
                      rows[t].state = "running", rows'[t].state = "queued"
               PROVE  rows[t].lease < clock
    OBVIOUS
  <2> QED BY RowMoves
<1> QED
  BY <1>1, TypeCorrect, PTL DEF Spec, NoEarlyRequeue

\* With distinct worker ids, only the current attempt records a result, and
\* only in a row that is still running.
THEOREM CurrentAttemptSettles == DistinctIds => (Spec => OnlyCurrentAttemptSettles)
<1> SUFFICES ASSUME DistinctIds PROVE Spec => OnlyCurrentAttemptSettles
  OBVIOUS
<1>1. IInv /\ [Next]_vars =>
        [\A t \in Tasks :
           rows'[t].state \in {"completed", "failed"} /\ rows'[t].state # rows[t].state
             => \E w \in Workers :
                  /\ Holds(w, t) /\ worker'[w] = IdleWorker
                  /\ worker[w].att = claims[t]
                  /\ rows[t].state = "running"]_vars
  <2> SUFFICES ASSUME IInv, [Next]_vars, NEW t \in Tasks,
                      rows'[t].state \in {"completed", "failed"},
                      rows'[t].state # rows[t].state
               PROVE  \E w \in Workers :
                        /\ Holds(w, t) /\ worker'[w] = IdleWorker
                        /\ worker[w].att = claims[t]
                        /\ rows[t].state = "running"
    OBVIOUS
  <2>1. PICK w \in Workers :
          /\ worker[w].pc = "running" /\ worker[w].task = t
          /\ rows[t].owner = WorkerId[w] /\ rows[t].state # "canceled"
          /\ worker'[w] = IdleWorker
    BY RowMoves DEF IInv
  <2>2. Holds(w, t)
    BY <2>1 DEF Holds
  <2> QED BY <2>1, <2>2 DEF IInv, OwnerIsCurrentAttempt
<1>2. IInv /\ [Next]_vars => IInv'
  BY StepInv
<1> QED
  BY <1>1, <1>2, InitInv, PTL DEF Spec, OnlyCurrentAttemptSettles

-----------------------------------------------------------------------------
(* The queue implements the task life cycle.                               *)

\* A step that moves one task from one state to another, all else as it was.
LEMMA OneMove ==
  ASSUME NEW t \in Tasks, NEW from, NEW to, rows \in [Tasks -> Row],
         rows[t].state = from, rows'[t].state = to,
         \A u \in Tasks \ {t} : rows'[u].state = rows[u].state
  PROVE  Life!Move(t, from, to)
<1>1. [u \in Tasks |-> rows'[u].state]
        = [[u \in Tasks |-> rows[u].state] EXCEPT ![t] = to]
  OBVIOUS
<1> QED
  BY <1>1 DEF Life!Move

\* The empty table is the initial state of the life cycle.
LEMMA InitImplements == Init => Life!LifeInit
  BY DEF Init, TableInit, AbsentRow, Life!LifeInit

\* Every step of the queue is a step of the life cycle, or leaves it alone.
LEMMA StepImplements ==
  ASSUME DistinctIds, IInv, [Next]_vars
  PROVE  [Life!LifeNext]_(Life!lifeVars)
<1>w. /\ worker \in [Workers -> Worker] /\ claims \in [Tasks -> Nat]
      /\ rows \in [Tasks -> Row] /\ TypeOK
  BY DEF IInv, TypeOK, TableTypeOK
<1> DEFINE SameStates == \A u \in Tasks : rows'[u].state = rows[u].state
<1>0. ASSUME SameStates, claims' = claims PROVE UNCHANGED Life!lifeVars
  BY <1>0 DEF Life!lifeVars
<1>1. ASSUME NEW t \in Tasks, PostTask(t) PROVE Life!LifeNext
  <2>1. rows[t].state = "absent" /\ rows'[t].state = "queued" /\ claims' = claims
        /\ \A u \in Tasks \ {t} : rows'[u].state = rows[u].state
    BY <1>1, <1>w DEF PostTask, Create, Row
  <2> QED BY <2>1, <1>w, OneMove DEF Life!LifeNext, Life!Submit
<1>2. ASSUME NEW t \in Tasks, CancelTask(t)
      PROVE  Life!LifeNext \/ UNCHANGED Life!lifeVars
  <2>1. claims' = claims /\ \A u \in Tasks \ {t} : rows'[u].state = rows[u].state
    BY <1>2, <1>w DEF CancelTask, Cancel, Row
  <2>2. CASE rows[t].state \in {"queued", "running"}
    <3>1. rows'[t].state = "canceled"
      BY <1>2, <2>2, <1>w DEF CancelTask, Cancel, Row
    <3> QED BY <2>1, <2>2, <3>1, <1>w, OneMove DEF Life!LifeNext, Life!Withdraw
  <2>3. CASE rows[t].state \notin {"queued", "running"}
    BY <1>0, <1>2, <2>1, <2>3 DEF CancelTask, Cancel
  <2> QED BY <2>2, <2>3
<1>3. ASSUME NEW S \in {{s} : s \in Scopes} \cup {Scopes}, Janitor(S)
      PROVE  Life!LifeNext
  <2>1. PICK now \in 0..clock : RequeueExpired(S, now)
    BY <1>3 DEF Janitor
  <2> DEFINE gone == Expired(S, now)
  <2>2. gone \in SUBSET Tasks /\ \A t \in gone : rows[t].state = "running"
    BY DEF Expired
  <2>3. \A t \in Tasks : rows'[t].state = IF t \in gone THEN "queued" ELSE rows[t].state
    BY <2>1, <1>w DEF RequeueExpired, RequeuedRow, Row
  <2> HIDE DEF gone
  <2>4. \E T \in SUBSET Tasks : Life!GiveBack(T)
    BY <2>2, <2>3, <1>3 DEF Janitor, Life!GiveBack
  <2> QED BY <2>4 DEF Life!LifeNext
<1>4. ASSUME NEW w \in Workers, NEW s \in Scopes, ClaimTask(w, s) PROVE Life!LifeNext
  <2>1. PICK t \in Tasks :
          /\ ClaimNext(s, WorkerId[w], worker[w].now, t)
          /\ claims' = [claims EXCEPT ![t] = @ + 1]
    BY <1>4 DEF ClaimTask
  <2>2. rows[t].state = "queued" /\ rows'[t].state = "running"
        /\ \A u \in Tasks \ {t} : rows'[u].state = rows[u].state
    BY <2>1, <1>w DEF ClaimNext, Oldest, Claimable, Row
  <2> QED BY <2>1, <2>2, <1>w, OneMove DEF Life!LifeNext, Life!Start
<1>5. ASSUME NEW w \in Workers, Renew(w) PROVE UNCHANGED Life!lifeVars
  <2>1. SameStates /\ claims' = claims
    BY <1>5, <1>w DEF Renew, Heartbeat, Row
  <2> QED BY <1>0, <2>1
<1>6. ASSUME NEW w \in Workers, NEW target \in {"completed", "failed"}, Settle(w, target)
      PROVE  Life!LifeNext \/ UNCHANGED Life!lifeVars
  <2> DEFINE t == worker[w].task
  <2>1. claims' = claims /\ Transition(t, WorkerId[w], target)
    BY <1>6 DEF Settle
  <2>2. CASE t \in Tasks /\ rows[t].owner = WorkerId[w] /\ rows[t].state # "canceled"
    <3>1. rows[t].state = "running"
      BY <1>6, <2>2 DEF Settle, IInv, OwnerIsCurrentAttempt, Holds
    <3>2. rows'[t].state = target
          /\ \A u \in Tasks \ {t} : rows'[u].state = rows[u].state
      BY <2>1, <2>2, <1>w DEF Transition, Row
    <3> HIDE DEF t
    <3> QED BY <2>1, <2>2, <3>1, <3>2, <1>w, OneMove DEF Life!LifeNext, Life!Finish
  <2>3. CASE ~ (t \in Tasks /\ rows[t].owner = WorkerId[w] /\ rows[t].state # "canceled")
    <3>1. SameStates
      BY <2>1, <2>3, <1>w DEF Transition
    <3> QED BY <1>0, <2>1, <3>1
  <2> QED BY <2>2, <2>3
<1>7. \/ \E w \in Workers : \/ BeginClaim(w) \/ BeginRenew(w) \/ Die(w)
                            \/ \E s \in Scopes : ClaimNothing(w, s)
      \/ Advance \/ UNCHANGED vars
      => UNCHANGED Life!lifeVars
  BY <1>0 DEF BeginClaim, BeginRenew, Die, ClaimNothing, Advance, vars
<1> QED
  BY <1>1, <1>2, <1>3, <1>4, <1>5, <1>6, <1>7 DEF Next

\* With distinct worker ids, every behaviour of the queue is one the task
\* life cycle allows: tasks finish once, from running, and stay finished.
THEOREM Refinement == DistinctIds => (Spec => ImplementsLifecycle)
<1> SUFFICES ASSUME DistinctIds PROVE Spec => ImplementsLifecycle
  OBVIOUS
<1>1. IInv /\ [Next]_vars => IInv'
  BY StepInv
<1>2. IInv /\ [Next]_vars => [Life!LifeNext]_(Life!lifeVars)
  BY StepImplements
<1> QED
  BY <1>1, <1>2, InitInv, InitImplements, PTL
  DEF Spec, ImplementsLifecycle, Life!LifeSpec
=============================================================================
