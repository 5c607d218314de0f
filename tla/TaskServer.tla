----------------------------- MODULE TaskServer -----------------------------
(***************************************************************************)
(* `agent serve` on the task queue (GSagent/core/runtime/server.py): serve *)
(* processes that share one database, each with the request handlers of    *)
(* its HTTP API and one worker thread that polls the scopes the process    *)
(* has heard of, claims a task, runs its turn and settles it.              *)
(*                                                                         *)
(* The turn itself (run_graph_session, whose module is not in the          *)
(* repository) is one step that ends normally or raises; a pause for       *)
(* approval is rejected at once and the turn goes on, so it is no step of  *)
(* its own.  The table is the only state that survives a crash.            *)
(***************************************************************************)
EXTENDS TaskTable, FiniteSets

CONSTANTS
  Procs,         \* serve processes
  WorkerId,      \* the worker_id of each ("worker-1" in all by default)
  DefaultScope,  \* "(default)"
  NoTask,
  FaultKinds,    \* the faults considered: a subset of {"crash", "dberror"}
  MaxFaults      \* bound: faults in one behaviour

ASSUME ServerAssumption ==
  /\ WorkerId \in [Procs -> Ids]
  /\ DefaultScope \in Scopes
  /\ NoTask \notin Tasks
  /\ FaultKinds \subseteq {"crash", "dberror"}
  /\ MaxFaults \in Nat

VARIABLES
  thread,   \* the worker thread of each process, with its locals
  known,    \* app.state.known_scopes of each process
  adding,   \* scopes of create_task calls between their two statements
  claims,   \* history: times each task was claimed
  faults    \* history: crashes and database errors so far

vars == <<rows, clock, thread, known, adding, claims, faults>>

InTask == {"check", "run", "finish", "complete", "excepted", "fail"}

Thread == [pc   : {"down", "poll", "scopes", "claim"} \cup InTask,
           todo : SUBSET Scopes,       \* the rest of the scopes snapshot
           scope: Scopes,
           now  : Nat,
           task : Tasks \cup {NoTask}]

FreshThread == [pc |-> "poll", todo |-> {}, scope |-> DefaultScope, now |-> 0,
                task |-> NoTask]

TypeOK ==
  /\ TableTypeOK
  /\ thread \in [Procs -> Thread]
  /\ known \in [Procs -> SUBSET Scopes]
  /\ adding \in [Procs -> SUBSET Scopes]
  /\ claims \in [Tasks -> Nat]
  /\ faults \in 0..MaxFaults

Up(p) == thread[p].pc # "down"
Executing(p, t) == thread[p].pc \in InTask /\ thread[p].task = t

Init ==
  /\ TableInit
  /\ thread = [p \in Procs |-> FreshThread]
  /\ known = [p \in Procs |-> {DefaultScope}]
  /\ adding = [p \in Procs |-> {}]
  /\ claims = [t \in Tasks |-> 0]
  /\ faults = 0

Go(p, pc) == thread' = [thread EXCEPT ![p].pc = pc]

\* claim_next has returned: its arguments are of no more use
Called(p) == [thread[p] EXCEPT !.scope = DefaultScope, !.now = 0]

\* back in _worker_loop's inner loop, the locals of the task gone
Leave(p) ==
  thread' = [thread EXCEPT ![p].pc = "scopes", ![p].task = NoTask]

-----------------------------------------------------------------------------
(* Request handlers.                                                       *)

CreateTask(p, t) ==
  /\ Up(p)
  /\ \E now \in 0..clock : Create(t, now)
  /\ adding' = [adding EXCEPT ![p] = @ \cup {ScopeOf[t]}]
  /\ UNCHANGED <<clock, thread, known, claims, faults>>

AddScope(p, s) ==
  /\ s \in adding[p]
  /\ known' = [known EXCEPT ![p] = @ \cup {s}]
  /\ adding' = [adding EXCEPT ![p] = @ \ {s}]
  /\ UNCHANGED <<rows, clock, thread, claims, faults>>

\* POST /tasks/{id}/cancel, or `agent tasks cancel` from a process of its own
CancelTask(t) ==
  /\ rows[t].state # "absent"
  /\ Cancel(t)
  /\ UNCHANGED <<clock, thread, known, adding, claims, faults>>

-----------------------------------------------------------------------------
(* The worker thread.                                                      *)

SnapshotDefaultOnly(p) ==             \* mutant: other scopes are not polled
  /\ thread[p].pc = "poll"
  /\ thread' = [thread EXCEPT ![p].pc = "scopes", ![p].todo = {DefaultScope}]
  /\ UNCHANGED <<rows, clock, known, adding, claims, faults>>

Snapshot(p) ==
  /\ thread[p].pc = "poll"
  /\ thread' = [thread EXCEPT ![p].pc = "scopes", ![p].todo = known[p]]
  /\ UNCHANGED <<rows, clock, known, adding, claims, faults>>

NextScope(p) ==
  /\ thread[p].pc = "scopes"
  /\ \/ /\ thread[p].todo = {}
        /\ Go(p, "poll")
     \/ \E s \in thread[p].todo :
          thread' = [thread EXCEPT ![p].pc = "claim", ![p].scope = s,
                                   ![p].todo = @ \ {s}, ![p].now = clock]
  /\ UNCHANGED <<rows, clock, known, adding, claims, faults>>

ClaimTask(p, t) ==
  /\ thread[p].pc = "claim"
  /\ ClaimNext(thread[p].scope, WorkerId[p], thread[p].now, t)
  /\ thread' = [thread EXCEPT ![p] = [Called(p) EXCEPT !.pc = "check", !.task = t]]
  /\ claims' = [claims EXCEPT ![t] = @ + 1]
  /\ UNCHANGED <<clock, known, adding, faults>>

ClaimNothing(p) ==
  /\ thread[p].pc = "claim"
  /\ Claimable(thread[p].scope, thread[p].now) = {}
  /\ thread' = [thread EXCEPT ![p] = [Called(p) EXCEPT !.pc = "scopes"]]
  /\ UNCHANGED <<rows, clock, known, adding, claims, faults>>

\* is_canceled, then the branch it decides: the state may change in between
CheckThen(p, from, to) ==
  /\ thread[p].pc = from
  /\ IF IsCanceled(thread[p].task) THEN Leave(p) ELSE Go(p, to)
  /\ UNCHANGED <<rows, clock, known, adding, claims, faults>>

CheckClaimed(p) == CheckThen(p, "check", "run")

RunTurn(p) ==
  /\ thread[p].pc = "run"
  /\ \/ Go(p, "finish")
     \/ Go(p, "excepted")
  /\ UNCHANGED <<rows, clock, known, adding, claims, faults>>

CheckFinished(p) == CheckThen(p, "finish", "complete")
CheckExcepted(p) == CheckThen(p, "excepted", "fail")

SettleAs(p, from, target) ==
  /\ thread[p].pc = from
  /\ Transition(thread[p].task, WorkerId[p], target)
  /\ Leave(p)
  /\ UNCHANGED <<clock, known, adding, claims, faults>>

CompleteTask(p) == SettleAs(p, "complete", "completed")

FailTask(p) == SettleAs(p, "fail", "failed")

WorkerStep(p) ==
  \/ Snapshot(p) \/ NextScope(p)
  \/ ClaimNothing(p) \/ \E t \in Tasks : ClaimTask(p, t)
  \/ CheckClaimed(p) \/ RunTurn(p)
  \/ CheckFinished(p) \/ CompleteTask(p)
  \/ CheckExcepted(p) \/ FailTask(p)

-----------------------------------------------------------------------------
(* Faults.                                                                 *)

Fault(kind) ==
  /\ kind \in FaultKinds
  /\ faults < MaxFaults
  /\ faults' = faults + 1

\* A statement fails ("database is locked").  Inside the try of _run_one_task
\* the task is then failed; outside it _worker_loop logs the error and polls
\* again, and the task stays as it is.
DbErrorInTry(p) ==
  /\ thread[p].pc \in {"finish", "complete"}
  /\ Fault("dberror")
  /\ Go(p, "excepted")
  /\ UNCHANGED <<rows, clock, known, adding, claims>>

DbErrorOutside(p) ==
  /\ thread[p].pc \in {"claim", "check", "excepted", "fail"}
  /\ Fault("dberror")
  /\ thread' = [thread EXCEPT ![p] = FreshThread]
  /\ UNCHANGED <<rows, clock, known, adding, claims>>

\* The process ends: killed, or shut down while the worker thread, a daemon
\* that lifespan joins for two seconds only, is still busy.
Crash(p) ==
  /\ Up(p)
  /\ Fault("crash")
  /\ thread' = [thread EXCEPT ![p] = [FreshThread EXCEPT !.pc = "down"]]
  /\ known' = [known EXCEPT ![p] = {DefaultScope}]
  /\ adding' = [adding EXCEPT ![p] = {}]
  /\ UNCHANGED <<rows, clock, claims>>

\* create_app again: nothing is read back from the table
Restart(p) ==
  /\ ~Up(p)
  /\ thread' = [thread EXCEPT ![p] = FreshThread]
  /\ UNCHANGED <<rows, clock, known, adding, claims, faults>>

Advance ==
  /\ Tick
  /\ UNCHANGED <<rows, thread, known, adding, claims, faults>>

Next ==
  \/ \E p \in Procs :
       \/ WorkerStep(p)
       \/ \E t \in Tasks : CreateTask(p, t)
       \/ \E s \in Scopes : AddScope(p, s)
       \/ DbErrorInTry(p) \/ DbErrorOutside(p) \/ Crash(p) \/ Restart(p)
  \/ \E t \in Tasks : CancelTask(t)
  \/ Advance

\* The worker loop never ends by itself and its turns are bounded (max_steps);
\* a handler that began finishes; a stopped service is started again; time
\* passes.  Users owe nothing: posts and cancels need not happen.
Fairness ==
  /\ \A p \in Procs : WF_vars(WorkerStep(p)) /\ WF_vars(Restart(p))
  /\ \A p \in Procs : WF_vars(\E s \in Scopes : AddScope(p, s))
  /\ WF_vars(Advance)

Spec == Init /\ [][Next]_vars /\ Fairness

-----------------------------------------------------------------------------
(* Properties.                                                             *)

\* Whatever ids the processes use, no two of them work on one task, and
\* without a fault a running task has a worker that will settle it
\* (claim_next's transaction, tasks.py:147-197; _run_one_task).
OneWorkerPerTask ==
  \A t \in Tasks :
    LET busy == {p \in Procs : Executing(p, t)}
    IN  /\ Cardinality(busy) <= 1
        /\ rows[t].state = "running" /\ faults = 0 => busy # {}

\* A task is handed out at most once, crashes and restarts included: the
\* server never calls requeue_expired, so a prompt is never run twice.
AtMostOneAttempt == \A t \in Tasks : claims[t] <= 1

\* Cancel, late results and database errors in any order: no task leaves a
\* final state or skips one, though every process has the same worker_id.
Life == INSTANCE TaskLifecycle WITH
          status  <- [t \in Tasks |-> rows[t].state],
          attempt <- claims
ImplementsLifecycle == Life!LifeSpec

\* The only two ways a fault strands a task.  Its worker died or gave up
\* (server.py:283-285) while the row says running; or no process knows its
\* scope any more, for known_scopes starts from the default alone.
Orphaned(t) == rows[t].state = "running" /\ ~ \E p \in Procs : Executing(p, t)
Forgotten(t) ==
  /\ rows[t].state = "queued"
  /\ \A p \in Procs : ScopeOf[t] \notin known[p] \cup adding[p]

\* Every queued task of every scope, also one a process learns of while it
\* polls, is settled or canceled, unless a fault strands it in one of these
\* two ways (_worker_loop and _run_one_task, server.py:275-331).
EventuallySettled ==
  \A t \in Tasks :
    rows[t].state = "queued"
      ~> rows[t].state \in Life!Final \/ Orphaned(t) \/ Forgotten(t)

\* server.py:23 and NFR-REL-01: "after a worker crash the expired lease is
\* requeued".  The code does not: nothing calls requeue_expired.
CrashRecovered ==
  \A t \in Tasks : rows[t].state = "running" ~> rows[t].state # "running"
=============================================================================
