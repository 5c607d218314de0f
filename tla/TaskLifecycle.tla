---------------------------- MODULE TaskLifecycle ----------------------------
(***************************************************************************)
(* What the task queue promises of one task, whatever the workers do: the  *)
(* state machine of tasks.py ("queued -> running -> completed / failed /   *)
(* canceled"), where a running task may also go back to queued (its worker *)
(* was given up for dead) and nothing ever leaves a final state.  `attempt`*)
(* counts how often a task was handed to a worker.                         *)
(***************************************************************************)
EXTENDS Naturals

CONSTANTS Tasks

VARIABLES status, attempt

lifeVars == <<status, attempt>>

Final == {"completed", "failed", "canceled"}

LifeInit ==
  /\ status = [t \in Tasks |-> "absent"]
  /\ attempt = [t \in Tasks |-> 0]

Move(t, from, to) ==
  /\ status[t] = from
  /\ status' = [status EXCEPT ![t] = to]

Submit(t) == Move(t, "absent", "queued") /\ UNCHANGED attempt

Start(t) ==
  /\ Move(t, "queued", "running")
  /\ attempt' = [attempt EXCEPT ![t] = @ + 1]

\* Several tasks may lose their workers at once.
GiveBack(S) ==
  /\ \A t \in S : status[t] = "running"
  /\ status' = [t \in Tasks |-> IF t \in S THEN "queued" ELSE status[t]]
  /\ UNCHANGED attempt

Finish(t) ==
  /\ \E to \in {"completed", "failed"} : Move(t, "running", to)
  /\ UNCHANGED attempt

Withdraw(t) ==
  /\ \E from \in {"queued", "running"} : Move(t, from, "canceled")
  /\ UNCHANGED attempt

LifeNext ==
  \/ \E t \in Tasks : Submit(t) \/ Start(t) \/ Finish(t) \/ Withdraw(t)
  \/ \E S \in SUBSET Tasks : GiveBack(S)

LifeSpec == LifeInit /\ [][LifeNext]_lifeVars
=============================================================================
