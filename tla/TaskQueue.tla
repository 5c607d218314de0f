------------------------------ MODULE TaskQueue ------------------------------
(***************************************************************************)
(* DurableTaskManager as a library: clients that post and cancel tasks, a  *)
(* janitor that requeues expired leases, and workers that follow the       *)
(* protocol of the tasks.py docstring: claim one task, renew its lease     *)
(* while working, settle it once.  A worker may be killed anywhere and     *)
(* comes back with no memory of what it held; its row stays as it was.     *)
(***************************************************************************)
EXTENDS TaskTable

CONSTANTS
  Workers,     \* threads that claim tasks
  WorkerId,    \* the worker_id each of them passes
  NoTask,      \* a worker that holds nothing
  MaxAttempts  \* bound: claims of one task

ASSUME QueueAssumption ==
  /\ WorkerId \in [Workers -> Ids]
  /\ NoTask \notin Tasks
  /\ MaxAttempts \in Nat

VARIABLES
  worker,      \* what each worker is doing, with the locals of its call
  claims       \* history: times each task was claimed

vars == <<rows, clock, worker, claims>>

Worker == [pc   : {"idle", "claiming", "running", "renewing"},
           task : Tasks \cup {NoTask},
           now  : Nat,              \* the instant a call in progress read
           att  : Nat]              \* which claim of `task` this is (history)

IdleWorker == [pc |-> "idle", task |-> NoTask, now |-> 0, att |-> 0]

TypeOK ==
  /\ TableTypeOK
  /\ worker \in [Workers -> Worker]
  /\ claims \in [Tasks -> Nat]

Holds(w, t) == worker[w].pc \in {"running", "renewing"} /\ worker[w].task = t

Init ==
  /\ TableInit
  /\ worker = [w \in Workers |-> IdleWorker]
  /\ claims = [t \in Tasks |-> 0]

-----------------------------------------------------------------------------
(* Clients and the janitor.  Any number of such calls may be in progress,  *)
(* each begun at some earlier instant.                                     *)

PostTask(t) ==
  /\ \E now \in 0..clock : Create(t, now)
  /\ UNCHANGED <<clock, worker, claims>>

CancelTask(t) ==
  /\ rows[t].state # "absent"
  /\ Cancel(t)
  /\ UNCHANGED <<clock, worker, claims>>

Janitor(S) ==
  /\ \E now \in 0..clock : RequeueExpired(S, now)
  /\ UNCHANGED <<clock, worker, claims>>

-----------------------------------------------------------------------------
(* Workers.                                                                *)

\* claim_next reads the clock, then waits for the lock
BeginClaim(w) ==
  /\ worker[w].pc = "idle"
  /\ worker' = [worker EXCEPT ![w].pc = "claiming", ![w].now = clock]
  /\ UNCHANGED <<rows, clock, claims>>

ClaimTask(w, s) ==
  /\ worker[w].pc = "claiming"
  /\ \E t \in Tasks :
       /\ claims[t] < MaxAttempts
       /\ ClaimNext(s, WorkerId[w], worker[w].now, t)
       /\ claims' = [claims EXCEPT ![t] = @ + 1]
       /\ worker' = [worker EXCEPT ![w] = [pc |-> "running", task |-> t,
                                           now |-> 0, att |-> claims[t] + 1]]
  /\ UNCHANGED clock

ClaimNothing(w, s) ==
  /\ worker[w].pc = "claiming"
  /\ Claimable(s, worker[w].now) = {}
  /\ worker' = [worker EXCEPT ![w] = IdleWorker]
  /\ UNCHANGED <<rows, clock, claims>>

BeginRenew(w) ==
  /\ worker[w].pc = "running"
  /\ worker' = [worker EXCEPT ![w].pc = "renewing", ![w].now = clock]
  /\ UNCHANGED <<rows, clock, claims>>

\* a worker told that its lease is gone may still go on working
Renew(w) ==
  /\ worker[w].pc = "renewing"
  /\ Heartbeat(worker[w].task, WorkerId[w], worker[w].now)
  /\ worker' = [worker EXCEPT ![w].pc = "running", ![w].now = 0]
  /\ UNCHANGED <<clock, claims>>

\* complete or fail, then on to the next task whatever the call returned
Settle(w, target) ==
  /\ worker[w].pc = "running"
  /\ Transition(worker[w].task, WorkerId[w], target)
  /\ worker' = [worker EXCEPT ![w] = IdleWorker]
  /\ UNCHANGED <<clock, claims>>

Die(w) ==
  /\ worker[w].pc # "idle"
  /\ worker' = [worker EXCEPT ![w] = IdleWorker]
  /\ UNCHANGED <<rows, clock, claims>>

Advance ==
  /\ Tick
  /\ UNCHANGED <<rows, worker, claims>>

Next ==
  \/ \E t \in Tasks : PostTask(t) \/ CancelTask(t)
  \/ \E S \in {{s} : s \in Scopes} \cup {Scopes} : Janitor(S)
  \/ \E w \in Workers :
       \/ BeginClaim(w) \/ BeginRenew(w) \/ Renew(w) \/ Die(w)
       \/ \E s \in Scopes : ClaimTask(w, s) \/ ClaimNothing(w, s)
       \/ \E target \in {"completed", "failed"} : Settle(w, target)
  \/ Advance

Spec == Init /\ [][Next]_vars

-----------------------------------------------------------------------------
(* What the queue guarantees.                                              *)

\* Workers do not share a worker_id.  create_app leaves that to the
\* deployment: its default is the same "worker-1" in every process.
DistinctIds == \A v, w \in Workers : WorkerId[v] = WorkerId[w] => v = w

\* lease_owner names the current attempt: a worker that still holds a task
\* and finds its own id in the row is the last one the task was handed to,
\* and nobody settled it behind its back.  (heartbeat and _transition decide
\* by that column alone, tasks.py:206-208 and 265-267.)
OwnerIsCurrentAttempt ==
  \A w \in Workers, t \in Tasks :
    Holds(w, t) /\ rows[t].owner = WorkerId[w]
      => /\ rows[t].state \in {"running", "canceled"}
         /\ worker[w].att = claims[t]

\* A result is recorded only by the worker of the latest attempt, while the
\* row is still running: a worker that was given up for dead, requeued and
\* replaced cannot write its late result over the new attempt's
\* (complete/fail, tasks.py:242-272).
OnlyCurrentAttemptSettles ==
  [][\A t \in Tasks :
       rows'[t].state \in {"completed", "failed"} /\ rows'[t].state # rows[t].state
         => \E w \in Workers :
              /\ Holds(w, t) /\ worker'[w] = IdleWorker
              /\ worker[w].att = claims[t]
              /\ rows[t].state = "running"]_vars

\* requeue_expired never takes a task from a worker whose lease is still
\* good at the moment the UPDATE runs, though it compares against a clock
\* it read earlier and heartbeats may come in between (tasks.py:216-239).
NoEarlyRequeue ==
  [][\A t \in Tasks :
       rows[t].state = "running" /\ rows'[t].state = "queued"
         => rows[t].lease < clock]_vars

\* A canceled task stays canceled whatever late results, heartbeats or
\* requeues arrive, shared worker ids or not (FR-010, tasks.py:12-13).
CanceledIsFinal ==
  [][\A t \in Tasks : IsCanceled(t) => IsCanceled(t)']_vars

\* With distinct worker ids the queue implements the task life cycle.
Life == INSTANCE TaskLifecycle WITH
          status  <- [t \in Tasks |-> rows[t].state],
          attempt <- claims
ImplementsLifecycle == Life!LifeSpec
=============================================================================
